---- MODULE Spec2Model ----
(***************************************************************************)
(* Model of the git_simplifier workflows (sync / re-sync state machine)    *)
(* over an abstract git repository with a primary directory and one        *)
(* worktree.  Every await of the TypeScript handlers is one step of an     *)
(* invocation; the executor (git) may fail any call.                       *)
(***************************************************************************)
EXTENDS Integers, Sequences, FiniteSets, TLC

\* ---------------------------------------------------------------- bounds
MaxInvocations == 2   \* commands invoked in one run
MaxExternal == 1      \* branch switches made outside the extension
MaxFaults == 1        \* executor calls that fail although they could succeed

\* ------------------------------------------------------------ the universe
Procs == {"p1", "p2"}
MainProcs == {"p1"}

Root == "root"
WT == "wt"
NoDir == "nodir"
Dirs == {Root, WT}
DirSeq == <<Root, WT>>

Branches == {"main", "fx", "fy"}
BranchSeq == <<"main", "fx", "fy">>
NoBranch == "nobranch"

Files == {"f1", "f2"}
\* the conflict lists a merge may leave: one file or both (f1, f2 are alike)
ConflictSets == {{"f1"}, Files}

NoRepo == "norepo"

\* what the user may type into the branch-name box, and a dismissed box
InputValues == {"", " ", "a b", "nb", "feat/x", "fx"}
NoInput == "<undefined>"
\* what `git branch -r` may print: the remote has these refs, or none
RemoteRefs == <<"origin/HEAD", "origin/main", "origin/nb">>
RemoteListings == {RemoteRefs, <<>>}
\* the remote-tracking branches origin may have, and an unset origin/HEAD
RemoteNames == {"origin/main", "origin/master", "origin/nb"}
NoRemoteHead == "none"

VARIABLES
  head,           \* branch checked out in each registered worktree directory
  branches,       \* the local branches that exist
  remote,         \* origin as fetched: what origin/HEAD points to, the refs
  upstream,       \* [Branches -> {"none","synced","ahead"}] the branch's upstream:
                  \* none configured, or one that has / lacks the branch's commits
  merging,        \* [Dirs -> BOOLEAN]      MERGE_HEAD exists in the directory
  conflicts,      \* [Dirs -> SUBSET Files] unmerged paths (diff-filter=U)
  commits,        \* number of commits created so far
  div,            \* [Branches -> {"none","clean","conflict"}] origin default vs branch
  selectedRepo,   \* RepoManager._selectedRepo
  workspaceState, \* persisted "selectedRepo"
  proc,           \* [Procs -> invocation record]
  invoked,        \* commands invoked so far
  external,       \* external branch switches so far
  faults          \* spurious executor failures so far

vars == <<head, branches, remote, upstream, merging, conflicts, commits, div, selectedRepo,
          workspaceState, proc, invoked, external, faults>>
gitVars == <<head, merging, conflicts, commits, div, remote, upstream>>
repoVars == <<selectedRepo, workspaceState>>
bookVars == <<invoked, external>>

\* ------------------------------------------------------- sync state table
SyncState(d) ==
  IF d = NoDir THEN "na"
  ELSE IF ~merging[d] THEN "Idle"
  ELSE IF conflicts[d] # {} THEN "Conflicted"
  ELSE "ReadyToFinalize"

\* ------------------------------------------------------------ trace events
\* One record per executor call or UI interaction of an invocation.
\*   st : sync state of the directory when the call was issued
\*   dv : divergence of the directory's branch when the call was issued
GitEv(op, d, ok, out) ==
  [k |-> "git", op |-> op, dir |-> d, ok |-> ok, out |-> out,
   st |-> SyncState(d), dv |-> div[head[d]]]

UiEv(op, out) ==
  [k |-> "ui", op |-> op, dir |-> NoDir, ok |-> TRUE, out |-> out,
   st |-> "na", dv |-> "na"]

\* gitExec rejects with new Error(stderr.trim() || err.message): the message
\* is identified with the failing command.
ErrMsg(op) == op

MutatingOps ==
  {"fetch", "checkout", "merge", "merge --abort", "add -A", "commit --no-edit",
   "worktree remove", "branch -D", "push --delete", "worktree add", "fetch --all",
   "stash push", "push", "push -u"}

IsMutating(e) == e.k = "git" /\ e.op \in MutatingOps

\* the events of a trace whose command is in ops, in order
RECURSIVE SelectEv(_, _)
SelectEv(s, ops) ==
  IF s = <<>> THEN <<>>
  ELSE IF s[1].op \in ops THEN <<s[1]>> \o SelectEv(Tail(s), ops)
  ELSE SelectEv(Tail(s), ops)

CountEv(s, op) == Cardinality({i \in 1..Len(s) : s[i].op = op})
Last(s) == s[Len(s)]

\* the executor's queries
QMerging == "rev-parse --verify MERGE_HEAD"
QConflicts == "diff --diff-filter=U"
QList == "diff --name-only"
QHead == "rev-parse --abbrev-ref HEAD"

\* An invocation's trace: ev is the sequence of its events; at is an index
\* of ev, the position of the first event of each command (0: none yet).
IndexedOps ==
  {"fetch", "symbolic-ref", QHead, "checkout", "merge", QConflicts,
   "conflictPrompt", "conflictChoice", "merge --abort", "notifyGitChange", "confirm",
   QMerging, QList, "add -A", "commit --no-edit"}

NoTrace == [ev |-> <<>>, at |-> [op \in IndexedOps |-> 0]]

Add(tr, e) ==
  [ev |-> Append(tr.ev, e),
   at |-> IF e.op \in IndexedOps /\ tr.at[e.op] = 0
          THEN [tr.at EXCEPT ![e.op] = Len(tr.ev) + 1]
          ELSE tr.at]

RECURSIVE Log(_, _)
Log(tr, evs) == IF evs = <<>> THEN tr ELSE Log(Add(tr, Head(evs)), Tail(evs))

\* ------------------------------------------------------ invocation records
FreshProc ==
  [kind |-> "none", pc |-> "idle", repoRoot |-> NoRepo, cwd |-> NoDir,
   branch |-> NoBranch, worktreePath |-> NoDir, defaultRemote |-> "none",
   worktrees |-> <<>>, branchItems |-> <<>>, mergeErr |-> "none",
   workspaceFolder |-> NoDir, trace |-> NoTrace,
   currentBranch |-> NoBranch, selected |-> <<>>, i |-> 0, deleteRemote |-> FALSE,
   localBranches |-> <<>>, remoteBranches |-> <<>>, baseBranch |-> NoBranch,
   newBranchName |-> NoInput, defaultName |-> NoInput,
   hasUpstream |-> FALSE, unpushedCommits |-> 0,
   snap |-> [commits |-> 0, merging |-> [d \in Dirs |-> FALSE],
             upstream |-> [b \in Branches |-> "none"]]]

Kinds == {"sync", "resync"}

ErrPrefix(kind) ==
  CASE kind = "sync" -> "Sync failed"
    [] kind = "resync" -> "Re-sync failed"
    [] kind = "remove" -> "Remove branch failed"
    [] kind = "create" -> "Failed to create branch"
    [] kind = "switch" -> "Switch branch failed"
    [] kind = "push" -> "Push failed"

\* An executor call that could succeed (can) fails only within the fault budget.
Fault(ok, can) ==
  IF ~ok /\ can
  THEN faults < MaxFaults /\ faults' = faults + 1
  ELSE UNCHANGED faults

AfterRoot(kind) ==
  CASE kind = "sync" -> "s_fetch"
    [] kind = "resync" -> "r_isMerging"
    [] kind = "remove" -> "rm_current"
    [] kind = "create" -> "c_mode"
    [] kind = "switch" -> "sw_current"
    [] kind = "push" -> "p_current"

\* mutant: the outer catch ends the invocation without showing the error
ThrownSilently(r, evs, msg) == [r EXCEPT !.pc = "done", !.trace = Log(@, evs)]

\* the handler's outer catch: show `<prefix>: ${err.message}` and end
Thrown(r, evs, msg) ==
  [r EXCEPT !.pc = "done",
            !.trace = Log(@, evs \o <<UiEv("error", {ErrPrefix(r.kind), msg})>>)]

TypeOK ==
  /\ Root \in DOMAIN head
  /\ \A d \in DOMAIN head : head[d] \in branches
  /\ branches \subseteq Branches \cup InputValues
  /\ remote.refs \subseteq RemoteNames
  /\ remote.HEAD \in remote.refs \cup {NoRemoteHead}
  /\ upstream \in [Branches -> {"none", "synced", "ahead"}]
  /\ merging \in [Dirs -> BOOLEAN]
  /\ conflicts \in [Dirs -> SUBSET Files]
  /\ commits \in Nat
  /\ invoked \in 0..MaxInvocations
  /\ external \in 0..MaxExternal
  /\ faults \in 0..MaxFaults
  /\ div \in [Branches -> {"none", "clean", "conflict"}]
  /\ selectedRepo \in {NoRepo} \cup Dirs
  /\ workspaceState \in {NoRepo} \cup Dirs
  /\ \A p \in Procs : proc[p].pc \in
       {"idle", "done", "getRepoRoot", "selectRepo",
        "s_fetch", "s_default", "s_worktrees", "s_branches", "s_pick", "s_revparse",
        "s_checkout", "s_merge", "s_checkConflicts", "s_prompt", "s_open", "s_abort",
        "r_isMerging", "r_check", "r_list", "r_add", "r_commit", "r_branch",
        "rm_current", "rm_branches", "rm_worktrees", "rm_pick", "rm_confirm",
        "rm_worktree", "rm_delete", "rm_remote",
        "c_mode", "c_fetch", "c_default", "c_locals", "c_pickLocal", "c_fetchAll",
        "c_remotes", "c_pickRemote", "c_name", "c_add", "c_open", "c_path",
        "sw_current", "sw_worktrees", "sw_branches", "sw_pick", "sw_open",
        "sw_status", "sw_dirty", "sw_stash", "sw_checkout",
        "p_current", "p_upstream", "p_log", "p_confirm", "p_push"}

\* ------------------------------------------------------------------- Init
\* The repository: primary directory on main, one worktree on fx, fy without a
\* worktree; no merge in progress; any divergence from the default branch.
Init ==
  /\ head = [d \in Dirs |-> IF d = Root THEN "main" ELSE "fx"]
  /\ branches = Branches
  /\ remote = [HEAD |-> "origin/main", refs |-> {"origin/main", "origin/nb"}]
  /\ upstream = [b \in Branches |-> "none"]
  /\ merging = [d \in Dirs |-> FALSE]
  /\ conflicts = [d \in Dirs |-> {}]
  /\ commits = 0
  /\ \E v \in {"none", "clean", "conflict"} : div = [b \in Branches |-> v]
  /\ workspaceState \in {NoRepo, Root}
  /\ selectedRepo = workspaceState
  /\ invoked = 0
  /\ external = 0
  /\ faults = 0
  /\ proc = [p \in Procs |-> FreshProc]

\* ------------------------------------------------------------ invocation
\* A command is invoked (extension.ts registers one handler per command); ws
\* is vscode.workspace.workspaceFolders[0], NoDir when no folder is open.
Start(p, kind, ws) ==
  /\ UNCHANGED branches
  /\ UNCHANGED faults
  /\ proc[p].pc \in {"idle", "done"}
  /\ invoked < MaxInvocations
  /\ invoked' = invoked + 1
  /\ UNCHANGED external
  /\ proc' = [proc EXCEPT ![p] =
                [FreshProc EXCEPT !.kind = kind, !.pc = "getRepoRoot",
                                  !.workspaceFolder = IF kind = "resync" THEN ws ELSE NoDir,
                                  !.snap = [commits |-> commits, merging |-> merging,
                                           upstream |-> upstream]]]
  /\ UNCHANGED <<gitVars, repoVars>>

\* the executor's query that validates a repository root
QRoot == "rev-parse --show-toplevel"

\* mutant: a cached root that fails the validation is dropped in memory only
DropSelectionInMemoryOnly == [selectedRepo |-> NoRepo, workspaceState |-> workspaceState]

\* the catch of getRepoRoot: the selection is cleared, in memory and persisted
DropSelection == [selectedRepo |-> NoRepo, workspaceState |-> NoRepo]

\* RepoManager.getRepoRoot
GetRepoRoot(p) ==
  /\ UNCHANGED branches
  /\ proc[p].pc = "getRepoRoot"
  /\ UNCHANGED <<gitVars, bookVars>>
  /\ IF selectedRepo # NoRepo
     THEN \E ok \in BOOLEAN :
            /\ Fault(ok, selectedRepo \in DOMAIN head)
            /\ ok => selectedRepo \in DOMAIN head
            /\ LET ev == GitEv(QRoot, selectedRepo, ok, {selectedRepo}) IN
               IF ok
               THEN /\ proc' = [proc EXCEPT ![p].repoRoot = selectedRepo,
                                            ![p].pc = AfterRoot(proc[p].kind),
                                            ![p].trace = Log(@, <<ev>>)]
                    /\ UNCHANGED repoVars
               ELSE /\ selectedRepo' = DropSelection.selectedRepo
                    /\ workspaceState' = DropSelection.workspaceState
                    /\ proc' = [proc EXCEPT ![p].pc = "selectRepo",
                                            ![p].trace = Log(@, <<ev>>)]
     ELSE /\ proc' = [proc EXCEPT ![p].pc = "selectRepo"]
          /\ UNCHANGED <<repoVars, faults>>

\* RepoManager.selectRepo: scan the workspace, then let the user pick
SelectRepo(p) ==
  /\ UNCHANGED branches
  /\ UNCHANGED faults
  /\ proc[p].pc = "selectRepo"
  /\ UNCHANGED <<gitVars, bookVars>>
  /\ \E found \in BOOLEAN, picked \in BOOLEAN :
       IF ~found
       THEN /\ proc' = [proc EXCEPT ![p] =
                 Thrown(@, <<>>, "No git repositories found in the workspace.")]
            /\ UNCHANGED repoVars
       ELSE IF ~picked
       THEN /\ proc' = [proc EXCEPT ![p] =
                 Thrown(@, <<UiEv("repoPick", {})>>, "No repository selected.")]
            /\ UNCHANGED repoVars
       ELSE /\ selectedRepo' = Root
            /\ workspaceState' = Root
            /\ proc' = [proc EXCEPT ![p].repoRoot = Root,
                                    ![p].pc = AfterRoot(proc[p].kind),
                                    ![p].trace = Log(@, <<UiEv("repoPick", {Root})>>)]

\* ------------------------------------------------------------------- sync
\* mutant: a failed fetch is swallowed and sync goes on
SyncFetchSwallow(p) ==
  /\ UNCHANGED branches
  /\ proc[p].pc = "s_fetch"
  /\ UNCHANGED <<gitVars, repoVars, bookVars>>
  /\ \E ok \in BOOLEAN :
      /\ Fault(ok, TRUE)
      /\ proc' = [proc EXCEPT ![p].pc = "s_default",
                              ![p].trace = Log(@, <<GitEv("fetch", proc[p].repoRoot, ok, {})>>)]

\* step 1: gitExec(["fetch", "origin"], repoRoot)
SyncFetch(p) ==
  /\ UNCHANGED branches
  /\ proc[p].pc = "s_fetch"
  /\ UNCHANGED <<gitVars, repoVars, bookVars>>
  /\ \E ok \in BOOLEAN :
      /\ Fault(ok, TRUE)
      /\
       LET ev == GitEv("fetch", proc[p].repoRoot, ok, {}) IN
       proc' = [proc EXCEPT ![p] =
                  IF ok THEN [@ EXCEPT !.pc = "s_default", !.trace = Log(@, <<ev>>)]
                  ELSE Thrown(@, <<ev>>, ErrMsg("fetch"))]

\* getDefaultRemoteBranch: origin's symbolic HEAD, else origin/main if it
\* verifies, else origin/master; never throws
GetDefaultRemoteBranch(symOk, ref, mainOk) ==
  IF symOk THEN ref
  ELSE IF mainOk THEN "origin/main"
  ELSE "origin/master"

DefaultRemoteEvents(d, symOk, mainOk) ==
  IF symOk THEN <<GitEv("symbolic-ref", d, TRUE, {})>>
  ELSE <<GitEv("symbolic-ref", d, FALSE, {}), GitEv("rev-parse --verify origin/main", d, mainOk, {})>>

\* the outcomes of the two queries: symbolic-ref succeeds only when
\* origin/HEAD is set, the verification only when origin/main exists; a
\* failure of a query that could succeed is within the fault budget
DefaultRemoteOutcome(symOk, mainOk) ==
  /\ symOk => remote.HEAD # NoRemoteHead /\ mainOk
  /\ (~symOk /\ mainOk) => "origin/main" \in remote.refs
  /\ LET n == (IF ~symOk /\ remote.HEAD # NoRemoteHead THEN 1 ELSE 0)
             + (IF ~mainOk /\ "origin/main" \in remote.refs THEN 1 ELSE 0) IN
       faults + n <= MaxFaults /\ faults' = faults + n

\* step 2
SyncDefaultRemote(p) ==
  /\ UNCHANGED branches
  /\ proc[p].pc = "s_default"
  /\ UNCHANGED <<gitVars, repoVars, bookVars>>
  /\ \E symOk \in BOOLEAN, mainOk \in BOOLEAN :
     /\ DefaultRemoteOutcome(symOk, mainOk)
     /\ proc' = [proc EXCEPT
                  ![p].defaultRemote = GetDefaultRemoteBranch(symOk, remote.HEAD, mainOk),
                  ![p].pc = "s_worktrees",
                  ![p].trace = Log(@, DefaultRemoteEvents(proc[p].repoRoot, symOk, mainOk))]

\* getWorktrees: `git worktree list --porcelain` parsed into <<path, branch>> pairs
GetWorktrees ==
  LET dirs == SelectSeq(DirSeq, LAMBDA d : d \in DOMAIN head) IN
  [i \in 1..Len(dirs) |-> [path |-> dirs[i], branch |-> head[dirs[i]]]]

\* step 3a
SyncWorktrees(p) ==
  /\ UNCHANGED branches
  /\ proc[p].pc = "s_worktrees"
  /\ UNCHANGED <<gitVars, repoVars, bookVars>>
  /\ \E ok \in BOOLEAN :
      /\ Fault(ok, TRUE)
      /\
       LET ev == GitEv("worktree list", proc[p].repoRoot, ok, {}) IN
       proc' = [proc EXCEPT ![p] =
                  IF ok THEN [@ EXCEPT !.worktrees = GetWorktrees, !.pc = "s_branches",
                                       !.trace = Log(@, <<ev>>)]
                  ELSE Thrown(@, <<ev>>, ErrMsg("worktree list"))]

\* the pick list: worktree branches first (with their paths), then the local
\* branches that have no worktree (worktreePath null)
RECURSIVE NoWorktreeItems(_, _)
NoWorktreeItems(localBranches, worktreeBranches) ==
  IF localBranches = <<>> THEN <<>>
  ELSE (IF Head(localBranches) \in worktreeBranches THEN <<>>
        ELSE <<[branch |-> Head(localBranches), worktreePath |-> NoDir]>>)
       \o NoWorktreeItems(Tail(localBranches), worktreeBranches)

BranchItems(worktrees, localBranches) ==
  [i \in 1..Len(worktrees) |->
     [branch |-> worktrees[i].branch, worktreePath |-> worktrees[i].path]]
  \o NoWorktreeItems(localBranches, {worktrees[i].branch : i \in 1..Len(worktrees)})

\* getLocalBranches
GetLocalBranches == SelectSeq(BranchSeq, LAMBDA b : b \in branches)

\* step 3b: list local branches and build the pick list
SyncBranches(p) ==
  /\ UNCHANGED branches
  /\ proc[p].pc = "s_branches"
  /\ UNCHANGED <<gitVars, repoVars, bookVars>>
  /\ \E ok \in BOOLEAN :
      /\ Fault(ok, TRUE)
      /\
       LET ev == GitEv("branch", proc[p].repoRoot, ok, {})
           items == BranchItems(proc[p].worktrees, GetLocalBranches) IN
       proc' = [proc EXCEPT ![p] =
                  IF ~ok THEN Thrown(@, <<ev>>, ErrMsg("branch"))
                  ELSE IF Len(items) = 0
                  THEN [@ EXCEPT !.pc = "done",
                                 !.trace = Log(@, <<ev, UiEv("warn", {"No local branches"})>>)]
                  ELSE [@ EXCEPT !.branchItems = items, !.worktrees = <<>>, !.pc = "s_pick",
                                 !.trace = Log(@, <<ev>>)]]

\* step 4: showQuickPick; 0 stands for a cancelled pick
\* step 5 (first half): cwd = selected.worktreePath || repoRoot
SyncPick(p) ==
  /\ UNCHANGED branches
  /\ UNCHANGED faults
  /\ proc[p].pc = "s_pick"
  /\ UNCHANGED <<gitVars, repoVars, bookVars>>
  /\ \E i \in 0..Len(proc[p].branchItems) :
       proc' = [proc EXCEPT ![p] =
                  IF i = 0
                  THEN [@ EXCEPT !.branchItems = <<>>, !.pc = "done",
                                 !.trace = Log(@, <<UiEv("quickPick", {})>>)]
                  ELSE LET sel == proc[p].branchItems[i] IN
                       [@ EXCEPT !.branchItems = <<>>,
                                 !.branch = sel.branch,
                                 !.worktreePath = sel.worktreePath,
                                 !.cwd = IF sel.worktreePath # NoDir THEN sel.worktreePath
                                         ELSE proc[p].repoRoot,
                                 !.pc = "s_revparse",
                                 !.trace = Log(@, <<UiEv("quickPick", {sel.branch})>>)]]

\* mutant: a worktree on another branch is checked out instead of refused
SyncAfterRevParseAlwaysCheckout(currentBranch, branch, worktreePath) ==
  IF currentBranch = branch THEN "s_merge" ELSE "s_checkout"

\* mutant: without a worktree sync merges into whatever the root is on
SyncAfterRevParseMergesInPlace(currentBranch, branch, worktreePath) ==
  IF currentBranch = branch \/ worktreePath = NoDir THEN "s_merge" ELSE "mismatch"

\* what sync does once it knows the branch checked out in cwd
SyncAfterRevParse(currentBranch, branch, worktreePath) ==
  IF currentBranch = branch THEN "s_merge"
  ELSE IF worktreePath = NoDir THEN "s_checkout"
  ELSE "mismatch"

\* step 5 (second half): rev-parse --abbrev-ref HEAD in cwd
SyncRevParse(p) ==
  /\ UNCHANGED branches
  /\ proc[p].pc = "s_revparse"
  /\ UNCHANGED <<gitVars, repoVars, bookVars>>
  /\ \E ok \in BOOLEAN :
      /\ Fault(ok, TRUE)
      /\
       LET cwd == proc[p].cwd
           ev == GitEv(QHead, cwd, ok, IF ok THEN {head[cwd]} ELSE {})
           next == SyncAfterRevParse(head[cwd], proc[p].branch, proc[p].worktreePath) IN
       proc' = [proc EXCEPT ![p] =
                  IF ~ok THEN Thrown(@, <<ev>>, ErrMsg(QHead))
                  ELSE IF next = "mismatch"
                  THEN [@ EXCEPT !.pc = "done",
                                 !.trace = Log(@, <<ev, UiEv("error", {"Worktree mismatch", head[cwd], proc[p].branch})>>)]
                  ELSE [@ EXCEPT !.pc = next, !.trace = Log(@, <<ev>>)]]

\* git checkout <branch> in dir d: refused while the index has unmerged
\* paths or when the branch is checked out in another worktree
CanCheckout(d, b) ==
  /\ conflicts[d] = {}
  /\ \A e \in Dirs \ {d} : head[e] # b

\* gitExec(["checkout", branch], cwd)
SyncCheckout(p) ==
  /\ UNCHANGED <<branches, remote, upstream>>
  /\ proc[p].pc = "s_checkout"
  /\ UNCHANGED <<commits, div, repoVars, bookVars>>
  /\ \E ok \in BOOLEAN :
      /\ Fault(ok, CanCheckout(proc[p].cwd, proc[p].branch))
      /\
       LET cwd == proc[p].cwd
           ev == GitEv("checkout", cwd, ok, {proc[p].branch}) IN
       /\ ok => CanCheckout(cwd, proc[p].branch)
       /\ IF ok
          THEN /\ head' = [head EXCEPT ![cwd] = proc[p].branch]
               /\ merging' = [merging EXCEPT ![cwd] = FALSE]
               /\ UNCHANGED conflicts
               /\ proc' = [proc EXCEPT ![p].pc = "s_merge", ![p].trace = Log(@, <<ev>>)]
          ELSE /\ UNCHANGED <<head, merging, conflicts>>
               /\ proc' = [proc EXCEPT ![p] = Thrown(@, <<ev>>, ErrMsg("checkout"))]

\* mutant: the success path forgets the notification
SyncSuccessEventsNoNotify(branch) ==
  <<UiEv("info", {"Sync success", branch})>>

\* after a successful merge: notifyGitChange(), then the success message
SyncSuccessEvents(branch) ==
  <<UiEv("notifyGitChange", {}), UiEv("info", {"Sync success", branch})>>

\* step 6: gitExec(["merge", defaultRemote, "--no-edit"], cwd).  git refuses
\* to start a merge while one is in progress; otherwise the outcome follows
\* the branch's divergence: up to date, a new merge commit, or conflicts
\* (MERGE_HEAD is left and the conflicted files are unmerged).
SyncMerge(p) ==
  /\ UNCHANGED <<branches, remote>>
  /\ proc[p].pc = "s_merge"
  /\ UNCHANGED <<head, repoVars, bookVars>>
  /\ LET cwd == proc[p].cwd
         b == head[cwd] IN
     \/ \* merge succeeded: notifyGitChange, success message
        /\ UNCHANGED faults
        /\ ~merging[cwd]
        /\ div[b] \in {"none", "clean"}
        /\ commits' = IF div[b] = "clean" THEN commits + 1 ELSE commits
        /\ upstream' = IF div[b] = "clean" /\ upstream[b] = "synced"
                       THEN [upstream EXCEPT ![b] = "ahead"] ELSE upstream
        /\ div' = [div EXCEPT ![b] = "none"]
        /\ UNCHANGED <<merging, conflicts>>
        /\ proc' = [proc EXCEPT
             ![p].pc = "done",
             ![p].trace = Log(@, <<GitEv("merge", cwd, TRUE, {proc[p].defaultRemote})>>
                            \o SyncSuccessEvents(proc[p].branch))]
     \/ \* merge stopped on conflicts
        /\ UNCHANGED faults
        /\ ~merging[cwd]
        /\ div[b] = "conflict"
        /\ \E cf \in ConflictSets :
             conflicts' = [conflicts EXCEPT ![cwd] = cf]
        /\ merging' = [merging EXCEPT ![cwd] = TRUE]
        /\ UNCHANGED <<commits, div, upstream>>
        /\ proc' = [proc EXCEPT
             ![p].pc = "s_checkConflicts",
             ![p].mergeErr = ErrMsg("merge"),
             ![p].trace = Log(@, <<GitEv("merge", cwd, FALSE, {proc[p].defaultRemote})>>)]
     \/ \* merge refused or failed for another reason: nothing changes
        /\ Fault(FALSE, ~merging[cwd])
        /\ UNCHANGED <<merging, conflicts, commits, div, upstream>>
        /\ proc' = [proc EXCEPT
             ![p].pc = "s_checkConflicts",
             ![p].mergeErr = ErrMsg("merge"),
             ![p].trace = Log(@, <<GitEv("merge", cwd, FALSE, {proc[p].defaultRemote})>>)]

\* mutant: a failing conflict query reads as "conflicts"
CheckForConflictsFailClosed(ok, output) == IF ok THEN output # {} ELSE TRUE

\* checkForConflicts: `git diff --name-only --diff-filter=U` printed something;
\* a failing query reads as "no conflicts"
CheckForConflicts(ok, output) == IF ok THEN output # {} ELSE FALSE

\* step 7: after a failed merge, prompt on conflicts, else report the error
SyncCheckConflicts(p) ==
  /\ UNCHANGED branches
  /\ proc[p].pc = "s_checkConflicts"
  /\ UNCHANGED <<gitVars, repoVars, bookVars>>
  /\ \E ok \in BOOLEAN :
      /\ Fault(ok, TRUE)
      /\
       LET cwd == proc[p].cwd
           ev == GitEv(QConflicts, cwd, ok, IF ok THEN conflicts[cwd] ELSE {}) IN
       proc' = [proc EXCEPT ![p] =
                  IF CheckForConflicts(ok, conflicts[cwd])
                  THEN [@ EXCEPT !.pc = "s_prompt",
                                 !.trace = Log(@, <<ev, UiEv("conflictPrompt", {proc[p].branch})>>)]
                  ELSE [@ EXCEPT !.pc = "done",
                                 !.trace = Log(@, <<ev, UiEv("error", {"Merge failed", proc[p].mergeErr})>>)]]

\* mutant: a dismissed prompt aborts the merge
SyncAfterPromptDismissAborts(action) ==
  IF action = "Open in New Window" THEN "s_open" ELSE "s_abort"

\* mutant: "Abort Merge" is accepted but no merge-abort is issued
SyncAfterPromptNoAbort(action) ==
  IF action = "Open in New Window" THEN "s_open" ELSE "done"

\* mutant: a dismissed prompt goes on to stage and commit the merge
SyncAfterPromptFinalizes(action) ==
  IF action = "Open in New Window" THEN "s_open"
  ELSE IF action = "Abort Merge" THEN "s_abort"
  ELSE "r_add"

\* the answer to the conflict prompt
SyncAfterPrompt(action) ==
  IF action = "Open in New Window" THEN "s_open"
  ELSE IF action = "Abort Merge" THEN "s_abort"
  ELSE "done"

SyncPrompt(p) ==
  /\ UNCHANGED branches
  /\ UNCHANGED faults
  /\ proc[p].pc = "s_prompt"
  /\ UNCHANGED <<gitVars, repoVars, bookVars>>
  /\ \E action \in {"Open in New Window", "Abort Merge", "dismissed"} :
       proc' = [proc EXCEPT ![p].pc = SyncAfterPrompt(action),
                            ![p].trace = Log(@, <<UiEv("conflictChoice", {action})>>)]

\* executeCommand("vscode.openFolder", cwd, forceNewWindow)
SyncOpen(p) ==
  /\ UNCHANGED branches
  /\ proc[p].pc = "s_open"
  /\ UNCHANGED <<gitVars, repoVars, bookVars>>
  /\ \E ok \in BOOLEAN :
      /\ Fault(ok, TRUE)
      /\
       proc' = [proc EXCEPT ![p] =
                  IF ok
                  THEN [@ EXCEPT !.pc = "done",
                                 !.trace = Log(@, <<UiEv("openFolder", {proc[p].cwd}),
                                                  UiEv("info", {"Resolve then re-sync"})>>)]
                  ELSE Thrown(@, <<UiEv("openFolder", {proc[p].cwd})>>, ErrMsg("openFolder"))]

\* gitExec(["merge", "--abort"], cwd): succeeds only while a merge is in progress
SyncAbort(p) ==
  /\ UNCHANGED <<branches, remote, upstream>>
  /\ proc[p].pc = "s_abort"
  /\ UNCHANGED <<head, commits, div, repoVars, bookVars>>
  /\ \E ok \in BOOLEAN :
      /\ Fault(ok, merging[proc[p].cwd])
      /\
       LET cwd == proc[p].cwd
           ev == GitEv("merge --abort", cwd, ok, {}) IN
       /\ ok => merging[cwd]
       /\ IF ok
          THEN /\ merging' = [merging EXCEPT ![cwd] = FALSE]
               /\ conflicts' = [conflicts EXCEPT ![cwd] = {}]
               /\ proc' = [proc EXCEPT
                    ![p].pc = "done",
                    ![p].trace = Log(@, <<ev, UiEv("info", {"Merge aborted", proc[p].branch})>>)]
          ELSE /\ UNCHANGED <<merging, conflicts>>
               /\ proc' = [proc EXCEPT ![p] = Thrown(@, <<ev>>, ErrMsg("merge --abort"))]

\* ----------------------------------------------------------------- resync
\* mutant: the merge-in-progress check is skipped
IsMergeInProgressAlways(ok) == TRUE

\* isMergeInProgress: `git rev-parse --verify MERGE_HEAD` succeeded
IsMergeInProgress(ok) == ok

\* mutant: resync always works in the repository root
ResyncCwdAlwaysRoot(workspaceFolder, repoRoot) == repoRoot

\* cwd = workspaceFolders ? workspaceFolders[0].uri.fsPath : repoRoot
ResyncCwd(workspaceFolder, repoRoot) ==
  IF workspaceFolder # NoDir THEN workspaceFolder ELSE repoRoot

\* the merge-in-progress query; no merge: "nothing to re-sync" and return
ResyncIsMerging(p) ==
  /\ UNCHANGED branches
  /\ proc[p].pc = "r_isMerging"
  /\ UNCHANGED <<gitVars, repoVars, bookVars>>
  /\ \E ok \in BOOLEAN :
      /\ Fault(ok, merging[ResyncCwd(proc[p].workspaceFolder, proc[p].repoRoot)])
      /\
       LET cwd == ResyncCwd(proc[p].workspaceFolder, proc[p].repoRoot)
           ev == GitEv(QMerging, cwd, ok, {}) IN
       /\ ok => merging[cwd]
       /\ proc' = [proc EXCEPT ![p] =
                  IF IsMergeInProgress(ok)
                  THEN [@ EXCEPT !.cwd = cwd, !.pc = "r_check", !.trace = Log(@, <<ev>>)]
                  ELSE [@ EXCEPT !.cwd = cwd, !.pc = "done",
                                 !.trace = Log(@, <<ev, UiEv("info", {"No merge in progress"})>>)]]

\* mutant: resync refuses to finalize once another command ran in the session
ResyncAfterCheckRemembers(hasConflicts) ==
  IF hasConflicts \/ invoked > 1 THEN "r_list" ELSE "r_add"

\* where resync goes once it knows whether conflicts remain
ResyncAfterCheck(hasConflicts) == IF hasConflicts THEN "r_list" ELSE "r_add"

\* the conflict query of resync
ResyncCheck(p) ==
  /\ UNCHANGED branches
  /\ proc[p].pc = "r_check"
  /\ UNCHANGED <<gitVars, repoVars, bookVars>>
  /\ \E ok \in BOOLEAN :
      /\ Fault(ok, TRUE)
      /\
       LET cwd == proc[p].cwd
           ev == GitEv(QConflicts, cwd, ok, IF ok THEN conflicts[cwd] ELSE {}) IN
       proc' = [proc EXCEPT
                  ![p].pc = ResyncAfterCheck(CheckForConflicts(ok, conflicts[cwd])),
                  ![p].trace = Log(@, <<ev>>)]

\* getConflictFiles: the lines of the same query; a failing query reads as []
GetConflictFiles(ok, output) == IF ok THEN output ELSE {}

\* conflicts remain: list them in the warning and return
ResyncList(p) ==
  /\ UNCHANGED branches
  /\ proc[p].pc = "r_list"
  /\ UNCHANGED <<gitVars, repoVars, bookVars>>
  /\ \E ok \in BOOLEAN :
      /\ Fault(ok, TRUE)
      /\
       LET cwd == proc[p].cwd
           ev == GitEv(QList, cwd, ok, IF ok THEN conflicts[cwd] ELSE {}) IN
       proc' = [proc EXCEPT
                  ![p].pc = "done",
                  ![p].trace = Log(@, <<ev, UiEv("warn:unresolved",
                                               GetConflictFiles(ok, conflicts[cwd]))>>)]

\* mutant: a failed stage-all is swallowed and the commit still issued
ResyncAddSwallow(p) ==
  /\ UNCHANGED <<branches, remote, upstream>>
  /\ proc[p].pc = "r_add"
  /\ UNCHANGED <<head, merging, commits, div, repoVars, bookVars>>
  /\ \E ok \in BOOLEAN :
      /\ Fault(ok, TRUE)
      /\ conflicts' = IF ok THEN [conflicts EXCEPT ![proc[p].cwd] = {}] ELSE conflicts
      /\ proc' = [proc EXCEPT ![p].pc = "r_commit",
                              ![p].trace = Log(@, <<GitEv("add -A", proc[p].cwd, ok, {})>>)]

\* gitExec(["add", "-A"], cwd): staging a file marks it resolved
ResyncAdd(p) ==
  /\ UNCHANGED <<branches, remote, upstream>>
  /\ proc[p].pc = "r_add"
  /\ UNCHANGED <<head, merging, commits, div, repoVars, bookVars>>
  /\ \E ok \in BOOLEAN :
      /\ Fault(ok, TRUE)
      /\
       LET cwd == proc[p].cwd
           ev == GitEv("add -A", cwd, ok, {}) IN
       IF ok
       THEN /\ conflicts' = [conflicts EXCEPT ![cwd] = {}]
            /\ proc' = [proc EXCEPT ![p].pc = "r_commit", ![p].trace = Log(@, <<ev>>)]
       ELSE /\ UNCHANGED conflicts
            /\ proc' = [proc EXCEPT ![p] = Thrown(@, <<ev>>, ErrMsg("add -A"))]

\* gitExec(["commit", "--no-edit"], cwd): concludes the merge with one commit;
\* refused while unmerged paths remain, and there is nothing to commit without
\* a merge in progress
\* mutant: a failed commit is tried again
ResyncCommitRetries(p) ==
  /\ UNCHANGED <<branches, remote>>
  /\ proc[p].pc = "r_commit"
  /\ UNCHANGED <<head, conflicts, repoVars, bookVars>>
  /\ \E ok \in BOOLEAN :
      /\ Fault(ok, merging[proc[p].cwd] /\ conflicts[proc[p].cwd] = {})
      /\
       LET cwd == proc[p].cwd
           ev == GitEv("commit --no-edit", cwd, ok, {}) IN
       /\ ok => (merging[cwd] /\ conflicts[cwd] = {})
       /\ IF ok
          THEN /\ merging' = [merging EXCEPT ![cwd] = FALSE]
               /\ commits' = commits + 1
               /\ upstream' = [upstream EXCEPT ![head[cwd]] =
                                 IF @ = "synced" THEN "ahead" ELSE @]
               /\ div' = [div EXCEPT ![head[cwd]] = "none"]
               /\ proc' = [proc EXCEPT ![p].pc = "r_branch", ![p].trace = Log(@, <<ev>>)]
          ELSE /\ UNCHANGED <<merging, commits, div, upstream>>
               /\ proc' = [proc EXCEPT ![p].trace = Log(@, <<ev>>)]

\* mutant: the commit goes through without a merge to conclude
ResyncCommitAllowEmpty(p) ==
  /\ UNCHANGED <<branches, remote>>
  /\ proc[p].pc = "r_commit"
  /\ UNCHANGED <<head, conflicts, repoVars, bookVars>>
  /\ \E ok \in BOOLEAN :
      /\ Fault(ok, TRUE)
      /\
       LET cwd == proc[p].cwd
           ev == GitEv("commit --no-edit", cwd, ok, {}) IN
       /\ IF ok
          THEN /\ merging' = [merging EXCEPT ![cwd] = FALSE]
               /\ commits' = commits + 1
               /\ upstream' = [upstream EXCEPT ![head[cwd]] =
                                 IF @ = "synced" THEN "ahead" ELSE @]
               /\ div' = [div EXCEPT ![head[cwd]] = "none"]
               /\ proc' = [proc EXCEPT ![p].pc = "r_branch", ![p].trace = Log(@, <<ev>>)]
          ELSE /\ UNCHANGED <<merging, commits, div, upstream>>
               /\ proc' = [proc EXCEPT ![p] = Thrown(@, <<ev>>, ErrMsg("commit --no-edit"))]

ResyncCommit(p) ==
  /\ UNCHANGED <<branches, remote>>
  /\ proc[p].pc = "r_commit"
  /\ UNCHANGED <<head, conflicts, repoVars, bookVars>>
  /\ \E ok \in BOOLEAN :
      /\ Fault(ok, merging[proc[p].cwd] /\ conflicts[proc[p].cwd] = {})
      /\
       LET cwd == proc[p].cwd
           ev == GitEv("commit --no-edit", cwd, ok, {}) IN
       /\ ok => (merging[cwd] /\ conflicts[cwd] = {})
       /\ IF ok
          THEN /\ merging' = [merging EXCEPT ![cwd] = FALSE]
               /\ commits' = commits + 1
               /\ upstream' = [upstream EXCEPT ![head[cwd]] =
                                 IF @ = "synced" THEN "ahead" ELSE @]
               /\ div' = [div EXCEPT ![head[cwd]] = "none"]
               /\ proc' = [proc EXCEPT ![p].pc = "r_branch", ![p].trace = Log(@, <<ev>>)]
          ELSE /\ UNCHANGED <<merging, commits, div, upstream>>
               /\ proc' = [proc EXCEPT ![p] = Thrown(@, <<ev>>, ErrMsg("commit --no-edit"))]

\* the branch name for the completion message
ResyncBranch(p) ==
  /\ UNCHANGED branches
  /\ proc[p].pc = "r_branch"
  /\ UNCHANGED <<gitVars, repoVars, bookVars>>
  /\ \E ok \in BOOLEAN :
      /\ Fault(ok, TRUE)
      /\
       LET cwd == proc[p].cwd
           ev == GitEv(QHead, cwd, ok, IF ok THEN {head[cwd]} ELSE {}) IN
       proc' = [proc EXCEPT ![p] =
                  IF ok
                  THEN [@ EXCEPT !.pc = "done",
                                 !.trace = Log(@, <<ev, UiEv("info", {"Re-sync complete", head[cwd]})>>)]
                  ELSE Thrown(@, <<ev>>, ErrMsg(QHead))]

\* ------------------------------------------------------------ environment
\* The user resolves one conflicted file outside the extension (edits it and
\* stages it), as the conflict prompt asks.
ResolveFile(d, f) ==
  /\ UNCHANGED <<branches, remote, upstream>>
  /\ UNCHANGED faults
  /\ f \in conflicts[d]
  /\ conflicts' = [conflicts EXCEPT ![d] = @ \ {f}]
  /\ UNCHANGED <<head, merging, commits, div, repoVars, proc, bookVars>>

\* The user switches a directory to another branch outside the extension.
ExternalCheckout(d, b) ==
  /\ UNCHANGED <<branches, remote, upstream>>
  /\ UNCHANGED faults
  /\ d \in DOMAIN head
  /\ b \in branches
  /\ ~merging[d]
  /\ \A e \in Dirs : head[e] # b
  /\ external < MaxExternal
  /\ external' = external + 1
  /\ head' = [head EXCEPT ![d] = b]
  /\ UNCHANGED <<merging, conflicts, commits, div, repoVars, proc, invoked>>

\* ------------------------------------------------------------------- Next
Step(p) ==
  \/ \E kind \in Kinds, ws \in Dirs \cup {NoDir} : Start(p, kind, ws)
  \/ GetRepoRoot(p)
  \/ SelectRepo(p)
  \/ SyncFetch(p)
  \/ SyncDefaultRemote(p)
  \/ SyncWorktrees(p)
  \/ SyncBranches(p)
  \/ SyncPick(p)
  \/ SyncRevParse(p)
  \/ SyncCheckout(p)
  \/ SyncMerge(p)
  \/ SyncCheckConflicts(p)
  \/ SyncPrompt(p)
  \/ SyncOpen(p)
  \/ SyncAbort(p)
  \/ ResyncIsMerging(p)
  \/ ResyncCheck(p)
  \/ ResyncList(p)
  \/ ResyncAdd(p)
  \/ ResyncCommit(p)
  \/ ResyncBranch(p)

\* files are resolved in either directory; the worktree directory is switched
\* outside the extension (the primary one changes branch through sync's checkout)
Env ==
  \/ \E d \in Dirs, f \in Files : ResolveFile(d, f)
  \/ \E b \in Branches : ExternalCheckout(WT, b)

Next == (\E p \in MainProcs : Step(p)) \/ Env

Spec == Init /\ [][Next]_vars

\* Two invocations in flight at once: the handlers are async functions, a
\* second command can be invoked while the first one waits at an await, and
\* nothing in the extension keeps them apart.  Both are re-syncs, started
\* in a repository where an earlier merge is still in progress in one
\* directory.
InitMergePending ==
  /\ head = [d \in Dirs |-> IF d = Root THEN "main" ELSE "fx"]
  /\ branches = Branches
  /\ remote = [HEAD |-> "origin/main", refs |-> {"origin/main", "origin/nb"}]
  /\ upstream = [b \in Branches |-> "none"]
  /\ \E d \in Dirs, cf \in ConflictSets \cup {{}} :
       /\ merging = [e \in Dirs |-> e = d]
       /\ conflicts = [e \in Dirs |-> IF e = d THEN cf ELSE {}]
  /\ commits = 0
  /\ div = [b \in Branches |-> "conflict"]
  /\ workspaceState \in {NoRepo, Root}
  /\ selectedRepo = workspaceState
  /\ invoked = 0
  /\ external = 0
  /\ faults = 0
  /\ proc = [p \in Procs |-> FreshProc]

OverlapStep(p) ==
  \/ \E ws \in Dirs \cup {NoDir} : Start(p, "resync", ws)
  \/ GetRepoRoot(p)
  \/ SelectRepo(p)
  \/ ResyncIsMerging(p)
  \/ ResyncCheck(p)
  \/ ResyncList(p)
  \/ ResyncAdd(p)
  \/ ResyncCommit(p)
  \/ ResyncBranch(p)

NextOverlap ==
  \/ \E p \in Procs : OverlapStep(p)
  \/ \E d \in Dirs, f \in Files : ResolveFile(d, f)

SpecOverlap == InitMergePending /\ [][NextOverlap]_vars

\* ----------------------------------------------------------------- removal
\* mutant: the current branch is offered for removal too
RemoveCandidatesUnfiltered(localBranches, currentBranch) == localBranches

\* deletableBranches = localBranches.filter((b) => b !== currentBranch)
RemoveCandidates(localBranches, currentBranch) ==
  SelectSeq(localBranches, LAMBDA b : b # currentBranch)

\* worktrees.find((wt) => wt.branch === branch)?.path || null
WorktreePathOf(worktrees, b) ==
  IF \E k \in 1..Len(worktrees) : worktrees[k].branch = b
  THEN worktrees[CHOOSE k \in 1..Len(worktrees) :
                   /\ worktrees[k].branch = b
                   /\ \A j \in 1..(k - 1) : worktrees[j].branch # b].path
  ELSE NoDir

\* the pick list of removal: one item per deletable branch
RemoveItems(deletable, worktrees) ==
  [k \in 1..Len(deletable) |->
     [branch |-> deletable[k], worktreePath |-> WorktreePathOf(worktrees, deletable[k])]]

\* the first step for an item: remove its worktree if it has one
RemoveFirstStep(item) ==
  IF item.worktreePath # NoDir THEN "rm_worktree" ELSE "rm_delete"

\* mutant: a failed worktree removal still goes on to delete the branch
RemoveAfterStepIgnoresWorktreeFailure(step, ok, deleteRemote) ==
  CASE step = "rm_worktree" -> "rm_delete"
    [] step = "rm_delete" -> IF ~ok THEN "failed" ELSE IF deleteRemote THEN "rm_remote" ELSE "next"
    [] step = "rm_remote" -> "next"

\* mutant: the remote branch is deleted whether or not the caller opted in,
\* and a failure there fails the item
RemoveAfterStepAlwaysRemote(step, ok, deleteRemote) ==
  CASE step = "rm_worktree" -> IF ok THEN "rm_delete" ELSE "failed"
    [] step = "rm_delete" -> IF ok THEN "rm_remote" ELSE "failed"
    [] step = "rm_remote" -> IF ok THEN "next" ELSE "failed"

\* the body of the per-item try: worktree remove, branch -D, then (opted in)
\* push --delete whose failure is swallowed; any other failure is caught
RemoveAfterStep(step, ok, deleteRemote) ==
  CASE step = "rm_worktree" -> IF ok THEN "rm_delete" ELSE "failed"
    [] step = "rm_delete" -> IF ~ok THEN "failed" ELSE IF deleteRemote THEN "rm_remote" ELSE "next"
    [] step = "rm_remote" -> "next"

\* mutant: the first failing item ends the batch
RemoveNextIndexAbortsOnFailure(selected, i, failed) ==
  IF failed THEN Len(selected) + 1 ELSE i + 1

\* mutant: a failed item is tried again
RemoveNextIndexRetries(selected, i, failed) ==
  IF failed THEN i ELSE i + 1

\* the for loop goes on to the next item, failed or not
RemoveNextIndex(selected, i, failed) == i + 1

\* `Removed ${selected.length} branch(es): ${branchNames}`
RemoveReport(selected) ==
  UiEv("info:removed", {selected[k].branch : k \in 1..Len(selected)})

\* the invocation after a step of item r.i, given the step's event
RemoveAdvance(r, step, ok, ev) ==
  LET to == RemoveAfterStep(step, ok, r.deleteRemote)
      item == r.selected[r.i]
      evs == IF to = "failed"
             THEN <<ev, UiEv("warn:failed", {item.branch, ErrMsg(ev.op)})>>
             ELSE <<ev>>
      n == RemoveNextIndex(r.selected, r.i, to = "failed") IN
  IF to \in {"rm_delete", "rm_remote"}
  THEN [r EXCEPT !.pc = to, !.trace = Log(@, evs)]
  ELSE IF n > Len(r.selected)
  THEN [r EXCEPT !.pc = "done", !.i = n, !.trace = Log(@, evs \o <<RemoveReport(r.selected)>>)]
  ELSE [r EXCEPT !.pc = RemoveFirstStep(r.selected[n]), !.i = n, !.trace = Log(@, evs)]

\* getCurrentBranch(repoRoot)
RemoveCurrent(p) ==
  /\ proc[p].pc = "rm_current"
  /\ UNCHANGED <<gitVars, branches, repoVars, bookVars>>
  /\ \E ok \in BOOLEAN :
      /\ Fault(ok, TRUE)
      /\ LET root == proc[p].repoRoot
             ev == GitEv(QHead, root, ok, IF ok THEN {head[root]} ELSE {}) IN
         proc' = [proc EXCEPT ![p] =
                    IF ok THEN [@ EXCEPT !.currentBranch = head[root], !.pc = "rm_branches",
                                         !.trace = Log(@, <<ev>>)]
                    ELSE Thrown(@, <<ev>>, ErrMsg(QHead))]

\* getLocalBranches(repoRoot)
RemoveBranches(p) ==
  /\ proc[p].pc = "rm_branches"
  /\ UNCHANGED <<gitVars, branches, repoVars, bookVars>>
  /\ \E ok \in BOOLEAN :
      /\ Fault(ok, TRUE)
      /\ LET ev == GitEv("branch", proc[p].repoRoot, ok, IF ok THEN branches ELSE {}) IN
         proc' = [proc EXCEPT ![p] =
                    IF ok THEN [@ EXCEPT !.localBranches = GetLocalBranches, !.pc = "rm_worktrees",
                                         !.trace = Log(@, <<ev>>)]
                    ELSE Thrown(@, <<ev>>, ErrMsg("branch"))]

\* getWorktrees(repoRoot), then the candidates and the pick list
RemoveWorktrees(p) ==
  /\ proc[p].pc = "rm_worktrees"
  /\ UNCHANGED <<gitVars, branches, repoVars, bookVars>>
  /\ \E ok \in BOOLEAN :
      /\ Fault(ok, TRUE)
      /\ LET ev == GitEv("worktree list", proc[p].repoRoot, ok, {})
             deletable == RemoveCandidates(proc[p].localBranches, proc[p].currentBranch)
             items == RemoveItems(deletable, GetWorktrees) IN
         proc' = [proc EXCEPT ![p] =
                    IF ~ok THEN Thrown(@, <<ev>>, ErrMsg("worktree list"))
                    ELSE IF Len(deletable) = 0
                    THEN [@ EXCEPT !.pc = "done", !.localBranches = <<>>,
                                   !.trace = Log(@, <<ev, UiEv("info", {"No branches to remove",
                                                                        proc[p].currentBranch})>>)]
                    ELSE [@ EXCEPT !.pc = "rm_pick", !.branchItems = items, !.localBranches = <<>>,
                                   !.trace = Log(@, <<ev, UiEv("offer", {items[k].branch :
                                                                         k \in 1..Len(items)})>>)]]

\* showQuickPick(items, canPickMany): the picked items, in list order
RemovePick(p) ==
  /\ proc[p].pc = "rm_pick"
  /\ UNCHANGED <<gitVars, branches, repoVars, bookVars, faults>>
  /\ \E S \in SUBSET (1..Len(proc[p].branchItems)) :
       LET items == proc[p].branchItems
           idx == SelectSeq([k \in 1..Len(items) |-> k], LAMBDA k : k \in S)
           selected == [k \in 1..Len(idx) |-> items[idx[k]]] IN
       proc' = [proc EXCEPT ![p] =
                  IF Len(selected) = 0
                  THEN [@ EXCEPT !.pc = "done", !.branchItems = <<>>,
                                 !.trace = Log(@, <<UiEv("quickPick", {})>>)]
                  ELSE [@ EXCEPT !.pc = "rm_confirm", !.branchItems = <<>>,
                                 !.selected = selected,
                                 !.trace = Log(@, <<UiEv("quickPick",
                                     {selected[k].branch : k \in 1..Len(selected)})>>)]]

\* `${n} worktree director${n === 1 ? "y" : "ies"} will also be removed.`
WorktreeNotice(n) ==
  IF n = 1 THEN "1 worktree directory will also be removed"
  ELSE "worktree directories will also be removed"

\* worktreeCount = selected.filter((s) => s.worktreePath).length
WorktreeCount(selected) ==
  Cardinality({k \in 1..Len(selected) : selected[k].worktreePath # NoDir})

\* mutant: the confirmation names the branches only
ConfirmMessageNamesOnly(selected) ==
  {selected[k].branch : k \in 1..Len(selected)}

\* the text of the confirmation: the selected branch names and, when a
\* selected branch has a worktree, the notice that directories are removed
ConfirmMessage(selected) ==
  {selected[k].branch : k \in 1..Len(selected)}
    \cup (IF WorktreeCount(selected) > 0
          THEN {WorktreeNotice(WorktreeCount(selected))} ELSE {})

\* the modal confirmation: "Delete", "Delete + Remove Remote", or dismissed
RemoveConfirm(p) ==
  /\ proc[p].pc = "rm_confirm"
  /\ UNCHANGED <<gitVars, branches, repoVars, bookVars, faults>>
  /\ \E confirm \in {"Delete", "Delete + Remove Remote", "dismissed"} :
       proc' = [proc EXCEPT ![p] =
                  IF confirm = "dismissed"
                  THEN [@ EXCEPT !.pc = "done",
                                 !.trace = Log(@, <<UiEv("confirmPrompt", ConfirmMessage(proc[p].selected)),
                                                    UiEv("confirm", {confirm})>>)]
                  ELSE [@ EXCEPT !.pc = RemoveFirstStep(proc[p].selected[1]), !.i = 1,
                                 !.deleteRemote = (confirm = "Delete + Remove Remote"),
                                 !.trace = Log(@, <<UiEv("confirmPrompt", ConfirmMessage(proc[p].selected)),
                                                    UiEv("confirm", {confirm})>>)]]

\* git worktree remove <path> --force: the path must be a registered linked
\* worktree (the primary directory cannot be removed)
CanRemoveWorktree(path) == path \in DOMAIN head \ {Root}

\* step 1 of an item: gitExec(["worktree", "remove", path, "--force"], repoRoot)
RemoveWorktree(p) ==
  /\ UNCHANGED <<remote, upstream>>
  /\ proc[p].pc = "rm_worktree"
  /\ UNCHANGED <<branches, commits, div, repoVars, bookVars>>
  /\ \E ok \in BOOLEAN :
      LET item == proc[p].selected[proc[p].i]
          path == item.worktreePath
          ev == GitEv("worktree remove", proc[p].repoRoot, ok, {item.branch}) IN
      /\ Fault(ok, CanRemoveWorktree(path))
      /\ ok => CanRemoveWorktree(path)
      /\ IF ok
         THEN /\ head' = [d \in DOMAIN head \ {path} |-> head[d]]
              /\ merging' = [merging EXCEPT ![path] = FALSE]
              /\ conflicts' = [conflicts EXCEPT ![path] = {}]
         ELSE UNCHANGED <<head, merging, conflicts>>
      /\ proc' = [proc EXCEPT ![p] = RemoveAdvance(@, "rm_worktree", ok, ev)]

\* git branch -D <branch>: refused for a branch that does not exist or is
\* checked out in a worktree
CanDeleteBranch(b) ==
  /\ b \in branches
  /\ \A d \in DOMAIN head : head[d] # b

\* step 2 of an item: gitExec(["branch", "-D", branch], repoRoot)
RemoveDelete(p) ==
  /\ proc[p].pc = "rm_delete"
  /\ UNCHANGED <<gitVars, repoVars, bookVars>>
  /\ \E ok \in BOOLEAN :
      LET item == proc[p].selected[proc[p].i]
          ev == GitEv("branch -D", proc[p].repoRoot, ok, {item.branch}) IN
      /\ Fault(ok, CanDeleteBranch(item.branch))
      /\ ok => CanDeleteBranch(item.branch)
      /\ branches' = IF ok THEN branches \ {item.branch} ELSE branches
      /\ proc' = [proc EXCEPT ![p] = RemoveAdvance(@, "rm_delete", ok, ev)]

\* step 3 of an item: gitExec(["push", "origin", "--delete", branch], repoRoot);
\* the remote may or may not have the branch
RemoveRemote(p) ==
  /\ proc[p].pc = "rm_remote"
  /\ UNCHANGED <<gitVars, branches, repoVars, bookVars, faults>>
  /\ \E ok \in BOOLEAN :
      LET item == proc[p].selected[proc[p].i]
          ev == GitEv("push --delete", proc[p].repoRoot, ok, {item.branch}) IN
      proc' = [proc EXCEPT ![p] = RemoveAdvance(@, "rm_remote", ok, ev)]

\* A branch is deleted outside the extension.
ExternalDeleteBranch(b) ==
  /\ CanDeleteBranch(b)
  /\ external < MaxExternal
  /\ external' = external + 1
  /\ branches' = branches \ {b}
  /\ UNCHANGED <<gitVars, repoVars, proc, invoked, faults>>

\* A linked worktree is removed outside the extension.
ExternalRemoveWorktree(d) ==
  /\ UNCHANGED <<remote, upstream>>
  /\ CanRemoveWorktree(d)
  /\ external < MaxExternal
  /\ external' = external + 1
  /\ head' = [e \in DOMAIN head \ {d} |-> head[e]]
  /\ merging' = [merging EXCEPT ![d] = FALSE]
  /\ conflicts' = [conflicts EXCEPT ![d] = {}]
  /\ UNCHANGED <<branches, commits, div, repoVars, proc, invoked, faults>>

RemoveStep(p) ==
  \/ Start(p, "remove", NoDir)
  \/ GetRepoRoot(p)
  \/ SelectRepo(p)
  \/ RemoveCurrent(p)
  \/ RemoveBranches(p)
  \/ RemoveWorktrees(p)
  \/ RemovePick(p)
  \/ RemoveConfirm(p)
  \/ RemoveWorktree(p)
  \/ RemoveDelete(p)
  \/ RemoveRemote(p)

EnvRemove ==
  \/ \E b \in Branches : ExternalDeleteBranch(b)
  \/ \E d \in Dirs : ExternalRemoveWorktree(d)

NextRemove == (\E p \in MainProcs : RemoveStep(p)) \/ EnvRemove

\* the repository of Init; removal and creation do not look at divergence
InitNoDivergence == Init /\ div = [b \in Branches |-> "none"]

SpecRemove == InitNoDivergence /\ [][NextRemove]_vars

\* Every `await` of the handler resumes when its call or prompt returns.
SpecRemoveFair == SpecRemove /\ WF_vars(\E p \in MainProcs : RemoveStep(p))

\* The window is open on the linked worktree (as after "open in new window"
\* for a created branch): `rev-parse --show-toplevel` there prints the
\* worktree's own directory, which selectRepo has stored as the repository.
InitWorktreeWindow ==
  /\ head = [d \in Dirs |-> IF d = Root THEN "main" ELSE "fx"]
  /\ branches = Branches
  /\ remote = [HEAD |-> "origin/main", refs |-> {"origin/main", "origin/nb"}]
  /\ upstream = [b \in Branches |-> "none"]
  /\ merging = [d \in Dirs |-> FALSE]
  /\ conflicts = [d \in Dirs |-> {}]
  /\ commits = 0
  /\ div = [b \in Branches |-> "none"]
  /\ workspaceState = WT
  /\ selectedRepo = workspaceState
  /\ invoked = 0
  /\ external = 0
  /\ faults = 0
  /\ proc = [p \in Procs |-> FreshProc]

\* the open directory stays while its window is open
NextRemoveInWorktree ==
  \/ \E p \in MainProcs : RemoveStep(p)
  \/ \E b \in Branches : ExternalDeleteBranch(b)

SpecRemoveInWorktree == InitWorktreeWindow /\ [][NextRemoveInWorktree]_vars

\* ---------------------------------------------------------------- creation
\* A name as the regular expressions of the code see it: its whitespace
\* characters, its path separators, and the runs of other characters.
Whitespace == {" ", "\t"}

Chars(s) ==
  CASE s = "" -> <<>>
    [] s = " " -> <<" ">>
    [] s = "a b" -> <<"a", " ", "b">>
    [] s = "nb" -> <<"nb">>
    [] s = "fx" -> <<"fx">>
    [] s = "main" -> <<"main">>
    [] s = "HEAD" -> <<"HEAD">>
    [] s = "feat/x" -> <<"feat", "/", "x">>
    [] s = "feat-x" -> <<"feat", "-", "x">>
    [] s = "origin/HEAD" -> <<"origin", "/", "HEAD">>
    [] s = "origin/main" -> <<"origin", "/", "main">>
    [] s = "origin/nb" -> <<"origin", "/", "nb">>
    [] s = "a/b/c" -> <<"a", "/", "b", "/", "c">>
    [] s = "root" -> <<"root">>
    [] s = "/" -> <<"/">>
    [] s = "/repo" -> <<"/", "repo">>
    [] s = "/w/repo" -> <<"/", "w", "/", "repo">>
    [] s = "/w/my repo" -> <<"/", "w", "/", "my", " ", "repo">>
    [] s = "/w/x/repo" -> <<"/", "w", "/", "x", "/", "repo">>
    [] s = "/w/a-b" -> <<"/", "w", "/", "a", "-", "b">>

Names ==
  {"", " ", "a b", "nb", "fx", "main", "HEAD", "feat/x", "feat-x",
   "origin/HEAD", "origin/main", "origin/nb"}

\* the string with the given characters
RECURSIVE Concat(_)
Concat(cs) == IF cs = <<>> THEN "" ELSE Head(cs) \o Concat(Tail(cs))

\* position of the last path separator of a path (0: none)
LastSep(cs) ==
  IF \E k \in 1..Len(cs) : cs[k] = "/"
  THEN CHOOSE k \in 1..Len(cs) : cs[k] = "/" /\ \A j \in (k + 1)..Len(cs) : cs[j] # "/"
  ELSE 0

\* path.dirname: "." for a bare name, "/" for a child of the root directory
Dirname(cs) ==
  LET k == LastSep(cs) IN
  IF k = 0 THEN <<".">>
  ELSE IF k = 1 THEN <<"/">>
  ELSE SubSeq(cs, 1, k - 1)

\* path.basename: what follows the last separator
Basename(cs) == SubSeq(cs, LastSep(cs) + 1, Len(cs))

\* path.join(dir, rest), normalized
PathJoin(dir, rest) ==
  IF rest = <<>> THEN dir
  ELSE IF dir = <<".">> THEN rest
  ELSE IF dir = <<"/">> THEN <<"/">> \o rest
  ELSE dir \o <<"/">> \o rest

\* the name with the given characters
Str(cs) == CHOOSE s \in Names : Chars(s) = cs

\* value.trim() is empty (also for the empty value)
IsBlank(value) == \A k \in 1..Len(Chars(value)) : Chars(value)[k] \in Whitespace

\* /\s/.test(value)
HasWhitespace(value) == \E k \in 1..Len(Chars(value)) : Chars(value)[k] \in Whitespace

\* mutant: only the empty check is made
ValidateInputEmptyOnly(value) ==
  IF IsBlank(value) THEN "Branch name cannot be empty" ELSE "null"

\* validateInput of the three name boxes
ValidateInput(value) ==
  IF IsBlank(value) THEN "Branch name cannot be empty"
  ELSE IF HasWhitespace(value) THEN "Branch name cannot contain spaces"
  ELSE "null"

\* showInputBox with validateInput: the box accepts a value only when the
\* validation returns null; a1, a2 are what the user enters, NoInput a
\* dismissal.  The result is the accepted value (or NoInput) and the events.
InputBox(a1, a2) ==
  IF a1 = NoInput THEN [value |-> NoInput, evs |-> <<>>]
  ELSE IF ValidateInput(a1) = "null" THEN [value |-> a1, evs |-> <<>>]
  ELSE IF a2 = NoInput THEN [value |-> NoInput, evs |-> <<UiEv("nameRejected", {a1})>>]
  ELSE IF ValidateInput(a2) = "null"
  THEN [value |-> a2, evs |-> <<UiEv("nameRejected", {a1})>>]
  ELSE [value |-> NoInput,
        evs |-> <<UiEv("nameRejected", {a1}), UiEv("nameRejected", {a2})>>]

\* getWorktreeBaseDir: <dirname(repoRoot)>/<basename(repoRoot)>-worktrees
GetWorktreeBaseDir(repoRoot) ==
  PathJoin(Dirname(Chars(repoRoot)), Basename(Chars(repoRoot)) \o <<"-worktrees">>)

\* mutant: replace without the g flag, only the first separator is replaced
SanitizeNameFirstOnly(name) ==
  LET cs == Chars(name) IN
  [k \in 1..Len(cs) |->
     IF cs[k] = "/" /\ \A j \in 1..(k - 1) : cs[j] # "/" THEN "-" ELSE cs[k]]

\* newBranchName.replace(/\//g, "-")
SanitizeName(name) ==
  [k \in 1..Len(Chars(name)) |-> IF Chars(name)[k] = "/" THEN "-" ELSE Chars(name)[k]]

\* path.join(worktreeBase, newBranchName.replace(/\//g, "-")), as characters
WorktreePathChars(repoRoot, name) ==
  PathJoin(GetWorktreeBaseDir(repoRoot), SanitizeName(name))

CreateWorktreePath(repoRoot, name) == Concat(WorktreePathChars(repoRoot, name))

\* getRemoteBranches: the listing without the entries that include "HEAD"
GetRemoteBranches(refs) ==
  SelectSeq(refs, LAMBDA b : \A k \in 1..Len(Chars(b)) : Chars(b)[k] # "HEAD")

\* selectedRemote.replace(/^[^/]+\//, ""): drop the remote prefix
StripRemotePrefix(ref) ==
  LET cs == Chars(ref) IN
  IF Len(cs) >= 2 /\ cs[1] # "/" /\ cs[2] = "/"
  THEN Str(SubSeq(cs, 3, Len(cs)))
  ELSE ref

\* the refs a new branch can start from
BaseExists(base) == base \in branches \/ base \in remote.refs

\* git worktree add -b <name> <path> <base>: refused when the branch exists,
\* the path is in use or the base does not resolve
CanAddWorktree(name, path, base) ==
  /\ name \notin branches
  /\ path \notin DOMAIN head
  /\ BaseExists(base)

\* mutant: the branch is created without its worktree
WorktreeAddBranchOnly(name, path) == [branches |-> branches \cup {name}, head |-> head]

\* the effect of git worktree add -b: the branch and its worktree, at once
WorktreeAdd(name, path) ==
  [branches |-> branches \cup {name},
   head |-> [d \in DOMAIN head \cup {path} |-> IF d = path THEN name ELSE head[d]]]

CreateModes == {"FromOriginMaster", "FromLocalBranch", "CloneRemoteBranch"}

\* where each mode starts
CreateModeStart(mode) ==
  CASE mode = "FromOriginMaster" -> "c_fetch"
    [] mode = "FromLocalBranch" -> "c_locals"
    [] mode = "CloneRemoteBranch" -> "c_fetchAll"

\* the mode quick pick
CreateMode(p) ==
  /\ proc[p].pc = "c_mode"
  /\ UNCHANGED <<gitVars, branches, repoVars, bookVars, faults>>
  /\ \E mode \in CreateModes \cup {NoInput} :
       proc' = [proc EXCEPT ![p] =
                  IF mode = NoInput
                  THEN [@ EXCEPT !.pc = "done", !.trace = Log(@, <<UiEv("quickPick", {})>>)]
                  ELSE [@ EXCEPT !.pc = CreateModeStart(mode),
                                 !.trace = Log(@, <<UiEv("quickPick", {mode})>>)]]

\* FromOriginMaster: gitExec(["fetch", "origin"], repoRoot)
CreateFetch(p) ==
  /\ proc[p].pc = "c_fetch"
  /\ UNCHANGED <<gitVars, branches, repoVars, bookVars>>
  /\ \E ok \in BOOLEAN :
      /\ Fault(ok, TRUE)
      /\ LET ev == GitEv("fetch", proc[p].repoRoot, ok, {}) IN
         proc' = [proc EXCEPT ![p] =
                    IF ok THEN [@ EXCEPT !.pc = "c_default", !.trace = Log(@, <<ev>>)]
                    ELSE Thrown(@, <<ev>>, ErrMsg("fetch"))]

\* FromOriginMaster: baseBranch = await getDefaultRemoteBranch(repoRoot)
CreateDefault(p) ==
  /\ proc[p].pc = "c_default"
  /\ UNCHANGED <<gitVars, branches, repoVars, bookVars>>
  /\ \E symOk \in BOOLEAN, mainOk \in BOOLEAN :
     /\ DefaultRemoteOutcome(symOk, mainOk)
     /\ proc' = [proc EXCEPT
                  ![p].baseBranch = GetDefaultRemoteBranch(symOk, remote.HEAD, mainOk),
                  ![p].pc = "c_name",
                  ![p].trace = Log(@, DefaultRemoteEvents(proc[p].repoRoot, symOk, mainOk))]

\* FromLocalBranch: getLocalBranches(repoRoot)
CreateLocals(p) ==
  /\ proc[p].pc = "c_locals"
  /\ UNCHANGED <<gitVars, branches, repoVars, bookVars>>
  /\ \E ok \in BOOLEAN :
      /\ Fault(ok, TRUE)
      /\ LET ev == GitEv("branch", proc[p].repoRoot, ok, IF ok THEN branches ELSE {}) IN
         proc' = [proc EXCEPT ![p] =
                    IF ~ok THEN Thrown(@, <<ev>>, ErrMsg("branch"))
                    ELSE IF Len(GetLocalBranches) = 0
                    THEN [@ EXCEPT !.pc = "done",
                                   !.trace = Log(@, <<ev, UiEv("warn", {"No local branches"})>>)]
                    ELSE [@ EXCEPT !.pc = "c_pickLocal", !.localBranches = GetLocalBranches,
                                   !.trace = Log(@, <<ev>>)]]

\* FromLocalBranch: pick the base; 0 stands for a cancelled pick
CreatePickLocal(p) ==
  /\ proc[p].pc = "c_pickLocal"
  /\ UNCHANGED <<gitVars, branches, repoVars, bookVars, faults>>
  /\ \E k \in 0..Len(proc[p].localBranches) :
       proc' = [proc EXCEPT ![p] =
                  IF k = 0
                  THEN [@ EXCEPT !.pc = "done", !.localBranches = <<>>,
                                 !.trace = Log(@, <<UiEv("quickPick", {})>>)]
                  ELSE [@ EXCEPT !.pc = "c_name", !.localBranches = <<>>,
                                 !.baseBranch = proc[p].localBranches[k],
                                 !.trace = Log(@, <<UiEv("quickPick", {proc[p].localBranches[k]})>>)]]

\* CloneRemoteBranch: getRemoteBranches starts with gitExec(["fetch", "--all"])
CreateFetchAll(p) ==
  /\ proc[p].pc = "c_fetchAll"
  /\ UNCHANGED <<gitVars, branches, repoVars, bookVars>>
  /\ \E ok \in BOOLEAN :
      /\ Fault(ok, TRUE)
      /\ LET ev == GitEv("fetch --all", proc[p].repoRoot, ok, {}) IN
         proc' = [proc EXCEPT ![p] =
                    IF ok THEN [@ EXCEPT !.pc = "c_remotes", !.trace = Log(@, <<ev>>)]
                    ELSE Thrown(@, <<ev>>, ErrMsg("fetch --all"))]

\* CloneRemoteBranch: gitExec(["branch", "-r", ...]) and the filtered list
CreateRemotes(p) ==
  /\ proc[p].pc = "c_remotes"
  /\ UNCHANGED <<gitVars, branches, repoVars, bookVars>>
  /\ \E ok \in BOOLEAN, refs \in RemoteListings :
      /\ Fault(ok, TRUE)
      /\ LET ev == GitEv("branch -r", proc[p].repoRoot, ok, {})
             remoteBranches == GetRemoteBranches(refs) IN
         proc' = [proc EXCEPT ![p] =
                    IF ~ok THEN Thrown(@, <<ev>>, ErrMsg("branch -r"))
                    ELSE IF Len(remoteBranches) = 0
                    THEN [@ EXCEPT !.pc = "done",
                                   !.trace = Log(@, <<ev, UiEv("warn", {"No remote branches"})>>)]
                    ELSE [@ EXCEPT !.pc = "c_pickRemote", !.remoteBranches = remoteBranches,
                                   !.trace = Log(@, <<ev>>)]]

\* CloneRemoteBranch: pick the remote branch; the local name defaults to it
\* without its remote prefix
CreatePickRemote(p) ==
  /\ proc[p].pc = "c_pickRemote"
  /\ UNCHANGED <<gitVars, branches, repoVars, bookVars, faults>>
  /\ \E k \in 0..Len(proc[p].remoteBranches) :
       proc' = [proc EXCEPT ![p] =
                  IF k = 0
                  THEN [@ EXCEPT !.pc = "done", !.remoteBranches = <<>>,
                                 !.trace = Log(@, <<UiEv("quickPick", {})>>)]
                  ELSE [@ EXCEPT !.pc = "c_name", !.remoteBranches = <<>>,
                                 !.baseBranch = proc[p].remoteBranches[k],
                                 !.defaultName = StripRemotePrefix(proc[p].remoteBranches[k]),
                                 !.trace = Log(@, <<UiEv("quickPick", {proc[p].remoteBranches[k]})>>)]]

\* the name box, then `if (!newBranchName) return`, then the worktree path
CreateName(p) ==
  /\ proc[p].pc = "c_name"
  /\ UNCHANGED <<gitVars, branches, repoVars, bookVars, faults>>
  /\ LET entries == InputValues \cup {proc[p].defaultName, NoInput} IN
     \E a1 \in entries, a2 \in entries :
       LET box == InputBox(a1, a2) IN
       proc' = [proc EXCEPT ![p] =
                  IF box.value = NoInput \/ box.value = ""
                  THEN [@ EXCEPT !.pc = "done", !.defaultName = NoInput,
                                 !.trace = Log(@, box.evs \o <<UiEv("inputBox", {})>>)]
                  ELSE [@ EXCEPT !.pc = "c_add", !.defaultName = NoInput,
                                 !.newBranchName = box.value,
                                 !.worktreePath = CreateWorktreePath(proc[p].repoRoot, box.value),
                                 !.trace = Log(@, box.evs \o <<UiEv("inputBox", {box.value})>>)]]

\* gitExec(["worktree", "add", "-b", newBranchName, worktreePath, baseBranch])
CreateAdd(p) ==
  /\ UNCHANGED <<remote, upstream>>
  /\ proc[p].pc = "c_add"
  /\ UNCHANGED <<merging, conflicts, commits, div, repoVars, bookVars>>
  /\ \E ok \in BOOLEAN :
      LET r == proc[p]
          can == CanAddWorktree(r.newBranchName, r.worktreePath, r.baseBranch)
          ev == GitEv("worktree add", r.repoRoot, ok,
                      {r.newBranchName, r.worktreePath, r.baseBranch})
          new == WorktreeAdd(r.newBranchName, r.worktreePath) IN
      /\ Fault(ok, can)
      /\ ok => can
      /\ branches' = IF ok THEN new.branches ELSE branches
      /\ head' = IF ok THEN new.head ELSE head
      /\ proc' = [proc EXCEPT ![p] =
                    IF ok THEN [@ EXCEPT !.pc = "c_open", !.trace = Log(@, <<ev>>)]
                    ELSE Thrown(@, <<ev>>, ErrMsg("worktree add"))]

\* executeCommand("vscode.openFolder", worktreeUri, forceNewWindow), then
\* notifyGitChange() and the success message
CreateOpen(p) ==
  /\ proc[p].pc = "c_open"
  /\ UNCHANGED <<gitVars, branches, repoVars, bookVars>>
  /\ \E ok \in BOOLEAN :
      /\ Fault(ok, TRUE)
      /\ LET open == UiEv("openFolder", {proc[p].worktreePath}) IN
         proc' = [proc EXCEPT ![p] =
                    IF ok
                    THEN [@ EXCEPT !.pc = "done",
                                   !.trace = Log(@, <<open, UiEv("notifyGitChange", {}),
                                                      UiEv("info", {"Branch created",
                                                                    proc[p].newBranchName})>>)]
                    ELSE Thrown(@, <<open>>, ErrMsg("openFolder"))]

CreateStep(p) ==
  \/ Start(p, "create", NoDir)
  \/ GetRepoRoot(p)
  \/ SelectRepo(p)
  \/ CreateMode(p)
  \/ CreateFetch(p)
  \/ CreateDefault(p)
  \/ CreateLocals(p)
  \/ CreatePickLocal(p)
  \/ CreateFetchAll(p)
  \/ CreateRemotes(p)
  \/ CreatePickRemote(p)
  \/ CreateName(p)
  \/ CreateAdd(p)
  \/ CreateOpen(p)

NextCreate == \E p \in MainProcs : CreateStep(p)

SpecCreate == InitNoDivergence /\ [][NextCreate]_vars

\* creation against any origin: origin/HEAD set or not, with or without
\* origin/main and origin/master
InitAnyRemote ==
  /\ head = [d \in Dirs |-> IF d = Root THEN "main" ELSE "fx"]
  /\ branches = Branches
  /\ \E refs \in SUBSET {"origin/main", "origin/master"} :
       \E h \in refs \cup {NoRemoteHead} : remote = [HEAD |-> h, refs |-> refs]
  /\ upstream = [b \in Branches |-> "none"]
  /\ merging = [d \in Dirs |-> FALSE]
  /\ conflicts = [d \in Dirs |-> {}]
  /\ commits = 0
  /\ div = [b \in Branches |-> "none"]
  /\ workspaceState \in {NoRepo, Root}
  /\ selectedRepo = workspaceState
  /\ invoked = 0
  /\ external = 0
  /\ faults = 0
  /\ proc = [p \in Procs |-> FreshProc]

SpecCreateAnyRemote == InitAnyRemote /\ [][NextCreate]_vars

\* ------------------------------------------------------------------ switch
\* worktrees.find((wt) => wt.branch === branch): the path of the first
\* worktree on the branch, NoDir when there is none
FindWorktree(worktrees, branch) ==
  IF \E i \in 1..Len(worktrees) : worktrees[i].branch = branch
  THEN worktrees[CHOOSE i \in 1..Len(worktrees) :
                   /\ worktrees[i].branch = branch
                   /\ \A j \in 1..(i - 1) : worktrees[j].branch # branch].path
  ELSE NoDir

\* the pick list: one item per local branch, with its worktree path or null
SwitchItems(localBranches, worktrees) ==
  [i \in 1..Len(localBranches) |->
     [branch |-> localBranches[i],
      worktreePath |-> FindWorktree(worktrees, localBranches[i])]]

\* mutant: a selection with a worktree is always opened
SwitchAfterPickReopens(sel, currentBranch, repoRoot) ==
  IF sel.worktreePath # NoDir THEN "sw_open" ELSE "sw_status"

\* mutant: every selection other than the current one is checked out in place
SwitchAfterPickAlwaysCheckout(sel, currentBranch, repoRoot) ==
  IF sel.branch = currentBranch /\ sel.worktreePath = repoRoot THEN "already"
  ELSE "sw_status"

\* what the handler does with the selected item
SwitchAfterPick(sel, currentBranch, repoRoot) ==
  IF sel.branch = currentBranch /\ sel.worktreePath = repoRoot THEN "already"
  ELSE IF sel.worktreePath # NoDir
  THEN (IF sel.worktreePath = repoRoot THEN "mainWorktree" ELSE "sw_open")
  ELSE "sw_status"

\* mutant: the status output is not looked at
SwitchAfterStatusIgnoresDirty(dirty) == "sw_checkout"

\* if (status.trim()): a dirty directory is put before the user
SwitchAfterStatus(dirty) == IF dirty THEN "sw_dirty" ELSE "sw_checkout"

StashChoice == "Switch Anyway (stash changes)"
DirtyChoices == {StashChoice, "Cancel"}

\* the answer to the dirty warning: stash and go on, or return
SwitchAfterDirty(action) == IF action = StashChoice THEN "sw_stash" ELSE "done"

\* getCurrentBranch(repoRoot)
SwitchCurrent(p) ==
  /\ proc[p].pc = "sw_current"
  /\ UNCHANGED <<gitVars, branches, repoVars, bookVars>>
  /\ \E ok \in BOOLEAN :
      /\ Fault(ok, TRUE)
      /\ LET root == proc[p].repoRoot
             ev == GitEv(QHead, root, ok, IF ok THEN {head[root]} ELSE {}) IN
         proc' = [proc EXCEPT ![p] =
                    IF ok THEN [@ EXCEPT !.currentBranch = head[root], !.pc = "sw_worktrees",
                                         !.trace = Log(@, <<ev>>)]
                    ELSE Thrown(@, <<ev>>, ErrMsg(QHead))]

\* getWorktrees(repoRoot)
SwitchWorktrees(p) ==
  /\ proc[p].pc = "sw_worktrees"
  /\ UNCHANGED <<gitVars, branches, repoVars, bookVars>>
  /\ \E ok \in BOOLEAN :
      /\ Fault(ok, TRUE)
      /\ LET ev == GitEv("worktree list", proc[p].repoRoot, ok, {}) IN
         proc' = [proc EXCEPT ![p] =
                    IF ok THEN [@ EXCEPT !.worktrees = GetWorktrees, !.pc = "sw_branches",
                                         !.trace = Log(@, <<ev>>)]
                    ELSE Thrown(@, <<ev>>, ErrMsg("worktree list"))]

\* getLocalBranches(repoRoot), then the pick list
SwitchBranches(p) ==
  /\ proc[p].pc = "sw_branches"
  /\ UNCHANGED <<gitVars, branches, repoVars, bookVars>>
  /\ \E ok \in BOOLEAN :
      /\ Fault(ok, TRUE)
      /\ LET ev == GitEv("branch", proc[p].repoRoot, ok, IF ok THEN branches ELSE {})
             items == SwitchItems(GetLocalBranches, proc[p].worktrees) IN
         proc' = [proc EXCEPT ![p] =
                    IF ~ok THEN Thrown(@, <<ev>>, ErrMsg("branch"))
                    ELSE IF Len(items) = 0
                    THEN [@ EXCEPT !.pc = "done", !.worktrees = <<>>,
                                   !.trace = Log(@, <<ev, UiEv("warn", {"No local branches"})>>)]
                    ELSE [@ EXCEPT !.branchItems = items, !.worktrees = <<>>, !.pc = "sw_pick",
                                   !.trace = Log(@, <<ev>>)]]

\* showQuickPick(items) and the dispatch on the selected item; 0 stands for
\* a dismissed pick
SwitchPick(p) ==
  /\ proc[p].pc = "sw_pick"
  /\ UNCHANGED <<gitVars, branches, repoVars, bookVars, faults>>
  /\ \E i \in 0..Len(proc[p].branchItems) :
       proc' = [proc EXCEPT ![p] =
         IF i = 0
         THEN [@ EXCEPT !.branchItems = <<>>, !.pc = "done",
                        !.trace = Log(@, <<UiEv("quickPick", {})>>)]
         ELSE
           LET sel == proc[p].branchItems[i]
               to == SwitchAfterPick(sel, proc[p].currentBranch, proc[p].repoRoot)
               pick == UiEv("quickPick", {sel.branch})
               r == [@ EXCEPT !.branchItems = <<>>, !.branch = sel.branch,
                              !.worktreePath = sel.worktreePath] IN
           IF to = "already"
           THEN [r EXCEPT !.pc = "done",
                          !.trace = Log(@, <<pick, UiEv("info", {"Already on", sel.branch})>>)]
           ELSE IF to = "mainWorktree"
           THEN [r EXCEPT !.pc = "done",
                          !.trace = Log(@, <<pick, UiEv("info", {"Already in the main worktree",
                                                                 sel.branch})>>)]
           ELSE [r EXCEPT !.pc = to, !.trace = Log(@, <<pick>>)]]

\* the selection has a worktree elsewhere: open it in a new window
SwitchOpen(p) ==
  /\ proc[p].pc = "sw_open"
  /\ UNCHANGED <<gitVars, branches, repoVars, bookVars>>
  /\ \E ok \in BOOLEAN :
      /\ Fault(ok, TRUE)
      /\ LET open == UiEv("openFolder", {proc[p].worktreePath}) IN
         proc' = [proc EXCEPT ![p] =
                    IF ok THEN [@ EXCEPT !.pc = "done",
                                         !.trace = Log(@, <<open, UiEv("info", {"Opened worktree",
                                                                                proc[p].branch})>>)]
                    ELSE Thrown(@, <<open>>, ErrMsg("openFolder"))]

\* git status --porcelain: the directory is found clean or dirty
SwitchStatus(p) ==
  /\ proc[p].pc = "sw_status"
  /\ UNCHANGED <<gitVars, branches, repoVars, bookVars>>
  /\ \E ok \in BOOLEAN, dirty \in BOOLEAN :
      /\ Fault(ok, TRUE)
      /\ ~ok => ~dirty
      /\ LET ev == GitEv("status", proc[p].repoRoot, ok, IF dirty THEN {"dirty"} ELSE {}) IN
         proc' = [proc EXCEPT ![p] =
                    IF ~ok THEN Thrown(@, <<ev>>, ErrMsg("status"))
                    ELSE IF SwitchAfterStatus(dirty) = "sw_dirty"
                    THEN [@ EXCEPT !.pc = "sw_dirty",
                                   !.trace = Log(@, <<ev, UiEv("dirtyPrompt", DirtyChoices)>>)]
                    ELSE [@ EXCEPT !.pc = "sw_checkout", !.trace = Log(@, <<ev>>)]]

\* the answer to the warning, or its dismissal
SwitchDirty(p) ==
  /\ proc[p].pc = "sw_dirty"
  /\ UNCHANGED <<gitVars, branches, repoVars, bookVars, faults>>
  /\ \E action \in DirtyChoices \cup {"dismissed"} :
       proc' = [proc EXCEPT ![p].pc = SwitchAfterDirty(action),
                            ![p].trace = Log(@, <<UiEv("dirtyChoice", {action})>>)]

\* git stash push -m "auto-stash before switching to <branch>"
SwitchStash(p) ==
  /\ proc[p].pc = "sw_stash"
  /\ UNCHANGED <<gitVars, branches, repoVars, bookVars>>
  /\ \E ok \in BOOLEAN :
      /\ Fault(ok, TRUE)
      /\ LET ev == GitEv("stash push", proc[p].repoRoot, ok, {proc[p].branch}) IN
         proc' = [proc EXCEPT ![p] =
                    IF ok THEN [@ EXCEPT !.pc = "sw_checkout",
                                         !.trace = Log(@, <<ev, UiEv("info", {"Changes stashed"})>>)]
                    ELSE Thrown(@, <<ev>>, ErrMsg("stash push"))]

\* git checkout <branch> in the repository root
SwitchCheckout(p) ==
  /\ UNCHANGED <<remote, upstream>>
  /\ proc[p].pc = "sw_checkout"
  /\ UNCHANGED <<merging, conflicts, commits, div, branches, repoVars, bookVars>>
  /\ \E ok \in BOOLEAN :
      /\ Fault(ok, CanCheckout(proc[p].repoRoot, proc[p].branch))
      /\ ok => CanCheckout(proc[p].repoRoot, proc[p].branch)
      /\ LET root == proc[p].repoRoot
             ev == GitEv("checkout", root, ok, {proc[p].branch}) IN
         /\ head' = IF ok THEN [head EXCEPT ![root] = proc[p].branch] ELSE head
         /\ proc' = [proc EXCEPT ![p] =
                      IF ok THEN [@ EXCEPT !.pc = "done",
                                           !.trace = Log(@, <<ev, UiEv("info", {"Switched to branch",
                                                                                proc[p].branch})>>)]
                      ELSE Thrown(@, <<ev>>, ErrMsg("checkout"))]

SwitchStep(p) ==
  \/ Start(p, "switch", NoDir)
  \/ GetRepoRoot(p)
  \/ SelectRepo(p)
  \/ SwitchCurrent(p)
  \/ SwitchWorktrees(p)
  \/ SwitchBranches(p)
  \/ SwitchPick(p)
  \/ SwitchOpen(p)
  \/ SwitchStatus(p)
  \/ SwitchDirty(p)
  \/ SwitchStash(p)
  \/ SwitchCheckout(p)

\* either directory is switched to another branch outside the extension
EnvSwitch == \E d \in Dirs, b \in Branches : ExternalCheckout(d, b)

NextSwitch == (\E p \in MainProcs : SwitchStep(p)) \/ EnvSwitch

SpecSwitch == InitNoDivergence /\ [][NextSwitch]_vars

\* ----------------------------------------------------------- worktree path
\* The path computation of createBranchCommand on its own: any repository
\* root and any branch name the name box accepts.
PathRoots == {"root", "/repo", "/w/repo", "/w/my repo", "/w/x/repo", "/w/a-b"}
PathNames ==
  {b \in {"nb", "fx", "main", "HEAD", "feat/x", "feat-x", "origin/main",
          "origin/nb", "a/b/c"} : ValidateInput(b) = "null"}

InitWorktreePath ==
  /\ head = [d \in Dirs |-> IF d = Root THEN "main" ELSE "fx"]
  /\ branches = Branches
  /\ remote = [HEAD |-> "origin/main", refs |-> {"origin/main", "origin/nb"}]
  /\ upstream = [b \in Branches |-> "none"]
  /\ merging = [d \in Dirs |-> FALSE]
  /\ conflicts = [d \in Dirs |-> {}]
  /\ commits = 0
  /\ div = [b \in Branches |-> "none"]
  /\ workspaceState = NoRepo
  /\ selectedRepo = NoRepo
  /\ invoked = 1
  /\ external = 0
  /\ faults = 0
  /\ \E R \in PathRoots, B \in PathNames :
       proc = [p \in Procs |->
                 IF p \in MainProcs
                 THEN [FreshProc EXCEPT !.kind = "create", !.pc = "c_path",
                                        !.repoRoot = R, !.newBranchName = B]
                 ELSE FreshProc]

\* worktreeBase = getWorktreeBaseDir(repoRoot); worktreePath = path.join(...)
ComputeWorktreePath(p) ==
  /\ proc[p].pc = "c_path"
  /\ UNCHANGED <<gitVars, branches, repoVars, bookVars, faults>>
  /\ proc' = [proc EXCEPT
       ![p].worktreePath = CreateWorktreePath(proc[p].repoRoot, proc[p].newBranchName),
       ![p].pc = "done",
       ![p].trace = Log(@, <<UiEv("worktreePath",
                         WorktreePathChars(proc[p].repoRoot, proc[p].newBranchName))>>)]

NextWorktreePath == \E p \in MainProcs : ComputeWorktreePath(p)

SpecWorktreePath == InitWorktreePath /\ [][NextWorktreePath]_vars

\* -------------------------------------------------------------------- push
\* the executor's query for the upstream of a branch
QUpstream == "rev-parse --abbrev-ref @{upstream}"

\* checkUpstreamExists: the query succeeded; a failing query reads as "no
\* upstream"
CheckUpstreamExists(ok) == ok

\* the log that lists the unpushed commits: against origin/<branch> with an
\* upstream, the whole history without
PushLogOp(hasUpstream) == IF hasUpstream THEN "log origin..HEAD" ELSE "log"

\* unpushedCommits.length: the commits the upstream lacks, or, without an
\* upstream, every commit of the branch (there is at least one)
UnpushedCommits(hasUpstream, up) ==
  IF hasUpstream THEN (IF up = "ahead" THEN 1 ELSE 0) ELSE 1

\* `git push` with an upstream, `git push -u origin <branch>` without
PushOp(hasUpstream) == IF hasUpstream THEN "push" ELSE "push -u"

\* getCurrentBranch(repoRoot)
PushCurrent(p) ==
  /\ proc[p].pc = "p_current"
  /\ UNCHANGED <<gitVars, branches, repoVars, bookVars>>
  /\ \E ok \in BOOLEAN :
      /\ Fault(ok, TRUE)
      /\ LET root == proc[p].repoRoot
             ev == GitEv(QHead, root, ok, IF ok THEN {head[root]} ELSE {}) IN
         proc' = [proc EXCEPT ![p] =
                    IF ok THEN [@ EXCEPT !.branch = head[root], !.pc = "p_upstream",
                                         !.trace = Log(@, <<ev>>)]
                    ELSE Thrown(@, <<ev>>, ErrMsg(QHead))]

\* step 1: checkUpstreamExists(repoRoot, branch)
PushUpstream(p) ==
  /\ proc[p].pc = "p_upstream"
  /\ UNCHANGED <<gitVars, branches, repoVars, bookVars>>
  /\ \E ok \in BOOLEAN :
      /\ Fault(ok, upstream[proc[p].branch] # "none")
      /\ ok => upstream[proc[p].branch] # "none"
      /\ proc' = [proc EXCEPT
                    ![p].hasUpstream = CheckUpstreamExists(ok),
                    ![p].pc = "p_log",
                    ![p].trace = Log(@, <<GitEv(QUpstream, proc[p].repoRoot, ok,
                                                {proc[p].branch})>>)]

\* step 2: the unpushed commits; none: "Nothing to push" and return
PushLog(p) ==
  /\ proc[p].pc = "p_log"
  /\ UNCHANGED <<gitVars, branches, repoVars, bookVars>>
  /\ \E ok \in BOOLEAN :
      /\ Fault(ok, TRUE)
      /\ LET r == proc[p]
             n == UnpushedCommits(r.hasUpstream, upstream[r.branch])
             ev == GitEv(PushLogOp(r.hasUpstream), r.repoRoot, ok, {r.branch}) IN
         proc' = [proc EXCEPT ![p] =
                    IF ~ok THEN Thrown(@, <<ev>>, ErrMsg(PushLogOp(r.hasUpstream)))
                    ELSE IF n = 0
                    THEN [@ EXCEPT !.pc = "done", !.unpushedCommits = n,
                                   !.trace = Log(@, <<ev, UiEv("info", {"Nothing to push"})>>)]
                    ELSE [@ EXCEPT !.pc = "p_confirm", !.unpushedCommits = n,
                                   !.trace = Log(@, <<ev>>)]]

\* if (!confirm || confirm.action === "cancel") return
PushAfterConfirm(action) == IF action = "push" THEN "p_push" ELSE "done"

\* step 3: the pick list with the items "push" and "cancel"
PushConfirm(p) ==
  /\ proc[p].pc = "p_confirm"
  /\ UNCHANGED <<gitVars, branches, repoVars, bookVars, faults>>
  /\ \E action \in {"push", "cancel", "dismissed"} :
       proc' = [proc EXCEPT
                  ![p].pc = PushAfterConfirm(action),
                  ![p].trace = Log(@, <<UiEv("quickPick",
                                   IF action = "dismissed" THEN {} ELSE {action})>>)]

\* step 4: the push; afterwards the upstream exists and has the commits
PushPush(p) ==
  /\ proc[p].pc = "p_push"
  /\ UNCHANGED <<head, merging, conflicts, commits, div, remote, branches,
                 repoVars, bookVars>>
  /\ \E ok \in BOOLEAN :
      /\ Fault(ok, TRUE)
      /\ LET r == proc[p]
             ev == GitEv(PushOp(r.hasUpstream), r.repoRoot, ok, {r.branch}) IN
         IF ok
         THEN /\ upstream' = [upstream EXCEPT ![r.branch] = "synced"]
              /\ proc' = [proc EXCEPT
                            ![p].pc = "done",
                            ![p].trace = Log(@, <<ev, UiEv("info", {"Pushed", r.branch})>>)]
         ELSE /\ UNCHANGED upstream
              /\ proc' = [proc EXCEPT ![p] = Thrown(@, <<ev>>, ErrMsg(PushOp(r.hasUpstream)))]

PushStep(p) ==
  \/ Start(p, "push", NoDir)
  \/ GetRepoRoot(p)
  \/ SelectRepo(p)
  \/ PushCurrent(p)
  \/ PushUpstream(p)
  \/ PushLog(p)
  \/ PushConfirm(p)
  \/ PushPush(p)

NextPush == \E p \in MainProcs : PushStep(p)

\* the repository of Init; the branches have no upstream, or one that has
\* their commits, or one that lacks some
InitPush ==
  /\ head = [d \in Dirs |-> IF d = Root THEN "main" ELSE "fx"]
  /\ branches = Branches
  /\ remote = [HEAD |-> "origin/main", refs |-> {"origin/main", "origin/nb"}]
  /\ \E u \in {"none", "synced", "ahead"} : upstream = [b \in Branches |-> u]
  /\ merging = [d \in Dirs |-> FALSE]
  /\ conflicts = [d \in Dirs |-> {}]
  /\ commits = 0
  /\ div = [b \in Branches |-> "none"]
  /\ workspaceState \in {NoRepo, Root}
  /\ selectedRepo = workspaceState
  /\ invoked = 0
  /\ external = 0
  /\ faults = 0
  /\ proc = [p \in Procs |-> FreshProc]

SpecPush == InitPush /\ [][NextPush]_vars

\* ================================================================= claims
Resyncs == {p \in Procs : proc[p].kind = "resync"}
Syncs == {p \in Procs : proc[p].kind = "sync"}
\* position of the first event of invocation p for command op, 0 when none
At(p, op) == proc[p].trace.at[op]
OpsOf(s) == [i \in 1..Len(s) |-> s[i].op]
MutatingOf(s) == OpsOf(SelectEv(s, MutatingOps))
\* the events of t after position i
After(t, i) == SubSeq(t, i + 1, Len(t))
\* the answer given to the conflict prompt, {} when none was given
Choice(p) ==
  LET c == At(p, "conflictChoice") IN
  IF c = 0 THEN {} ELSE proc[p].trace.ev[c].out

\* C1: a resync whose merge-in-progress query ran in a directory with no
\* merge in progress has ended with "no merge in progress" as its last
\* report, issued no mutating executor call, and left the merge flags and the
\* commits as they were when it was invoked.
C1_ResyncNoMergeIsNoop ==
  \A p \in Resyncs :
    LET r == proc[p]
        t == r.trace.ev
        q == At(p, QMerging) IN
    (q > 0 /\ t[q].st = "Idle") =>
      /\ r.pc = "done"
      /\ Last(t) = UiEv("info", {"No merge in progress"})
      /\ \A i \in 1..Len(t) : ~IsMutating(t[i])
      /\ merging = r.snap.merging
      /\ commits = r.snap.commits
      /\ conflicts[r.cwd] = {}

C1_Witness ==
  \E p \in Resyncs :
    LET t == proc[p].trace.ev
        q == At(p, QMerging) IN
    /\ proc[p].pc = "done"
    /\ q > 0 /\ t[q].st = "Idle"
    /\ commits > 0

\* C2: a resync whose conflict query ran while the directory was Conflicted
\* (merge in progress, at least one conflict file) issues neither stage-all
\* nor commit, reports the files of the conflict-file listing, and leaves the
\* merge in progress.
C2_ResyncRefusesWhileConflicted ==
  \A p \in Resyncs :
    LET r == proc[p]
        t == r.trace.ev
        q == At(p, QConflicts)
        l == At(p, QList) IN
    (q > 0 /\ t[q].st = "Conflicted") =>
      /\ \A i \in 1..Len(t) : ~IsMutating(t[i])
      /\ r.pc \in {"r_list", "done"}
      /\ r.pc = "done" =>
           /\ l > 0
           /\ Last(t) = UiEv("warn:unresolved", t[l].out)
           /\ merging[r.cwd]

\* C3: resync issues stage-all then commit, in that order and at most once
\* each, and nothing else that mutates; from ReadyToFinalize it issues
\* stage-all, after a successful stage-all the commit, and after a successful
\* commit the merge is concluded with exactly one new commit; a failed
\* stage-all is never followed by a commit.
C3_ResyncFinalizes ==
  \A p \in Resyncs :
    LET r == proc[p]
        t == r.trace.ev
        q == At(p, QConflicts)
        a == At(p, "add -A")
        c == At(p, "commit --no-edit") IN
    /\ \A i \in 1..Len(t) : IsMutating(t[i]) => i \in {a, c}
    /\ c > 0 => (0 < a /\ a < c)
    /\ (a > 0 /\ ~t[a].ok) => (c = 0 /\ r.pc = "done")
    /\ (q > 0 /\ t[q].st = "ReadyToFinalize") => (r.pc = "r_add" \/ a > 0)
    /\ (a > 0 /\ t[a].ok) => (r.pc = "r_commit" \/ c > 0)
    /\ (c > 0 /\ t[c].ok) =>
         /\ ~merging[r.cwd]
         /\ commits = r.snap.commits + 1

C3_Witness ==
  \E p \in Resyncs :
    LET t == proc[p].trace.ev
        q == At(p, QConflicts) IN
    /\ proc[p].pc = "done"
    /\ q > 0 /\ t[q].st = "ReadyToFinalize" /\ t[q].ok
    /\ MutatingOf(t) = <<"add -A", "commit --no-edit">>
    /\ ~merging[proc[p].cwd]
    /\ Last(t).op = "info"

\* C4: sync offers the conflict prompt only when its conflict query ran in a
\* Conflicted directory (merge in progress, conflict list non-empty); after
\* "Open in New Window" or a dismissal, sync has issued no merge-abort,
\* stage-all or commit and the merge is still in progress.
C4_ConflictedSyncLeavesMerge ==
  \A p \in Syncs :
    LET r == proc[p]
        t == r.trace.ev
        m == At(p, "merge")
        q == At(p, QConflicts)
        ch == Choice(p) IN
    /\ At(p, "conflictPrompt") > 0 =>
         /\ m > 0 /\ ~t[m].ok
         /\ q > 0 /\ t[q].st = "Conflicted" /\ t[q].out # {}
    /\ (ch # {} /\ ch \subseteq {"Open in New Window", "dismissed"}) =>
         /\ \A op \in {"merge --abort", "add -A", "commit --no-edit"} : At(p, op) = 0
         /\ merging[r.cwd]
         /\ ch = {"dismissed"} => r.pc = "done"

C4_Witness ==
  \E p \in Syncs :
    /\ proc[p].pc = "done"
    /\ Choice(p) = {"dismissed"}
    /\ conflicts[proc[p].cwd] # {}

\* C5: after "Abort Merge", a finished sync has issued exactly one
\* merge-abort, in the target directory; when that call succeeded no merge is
\* in progress there, the conflict list is empty, no commit was created
\* since the invocation started, and the abort is reported.
C5_AbortMergeRestoresIdle ==
  \A p \in Syncs :
    LET r == proc[p]
        t == r.trace.ev
        a == At(p, "merge --abort") IN
    (r.pc = "done" /\ Choice(p) = {"Abort Merge"}) =>
      /\ CountEv(t, "merge --abort") = 1
      /\ t[a].dir = r.cwd
      /\ t[a].ok =>
           /\ ~merging[r.cwd]
           /\ conflicts[r.cwd] = {}
           /\ commits = r.snap.commits
           /\ Last(t) = UiEv("info", {"Merge aborted", r.branch})

C5_Witness ==
  \E p \in Syncs :
    LET t == proc[p].trace.ev
        a == At(p, "merge --abort") IN
    /\ proc[p].pc = "done"
    /\ Choice(p) = {"Abort Merge"}
    /\ a > 0 /\ t[a].ok
    /\ ~merging[proc[p].cwd]

\* C6: once sync's merge command has succeeded the invocation is over, no
\* merge is in progress in the target directory, the notification was fired
\* exactly once and then success reported, and nothing follows the merge: no
\* conflict query, prompt, merge-abort or other executor call.
C6_MergeSuccessNotifiesOnce ==
  \A p \in Syncs :
    LET r == proc[p]
        t == r.trace.ev
        m == At(p, "merge") IN
    (m > 0 /\ t[m].ok) =>
      /\ r.pc = "done"
      /\ ~merging[r.cwd]
      /\ After(t, m) =
           <<UiEv("notifyGitChange", {}), UiEv("info", {"Sync success", r.branch})>>
      /\ CountEv(t, "notifyGitChange") = 1
      /\ CountEv(t, "merge") = 1
      /\ At(p, "conflictPrompt") = 0

C6_Witness ==
  \E p \in Syncs :
    LET t == proc[p].trace.ev
        m == At(p, "merge") IN
    /\ proc[p].pc = "done"
    /\ m > 0 /\ t[m].ok /\ t[m].dv = "clean"
    /\ commits = proc[p].snap.commits + 1

\* C7: sync issues neither stage-all nor commit; a commit created during a
\* sync comes from its successful merge; and a finished sync whose merge was
\* issued on a branch with zero divergence created no commit and leaves no
\* merge in progress.
C7_SyncNeverCommits ==
  \A p \in Syncs :
    LET r == proc[p]
        t == r.trace.ev
        m == At(p, "merge") IN
    /\ \A op \in {"add -A", "commit --no-edit"} : At(p, op) = 0
    /\ commits # r.snap.commits =>
         (m > 0 /\ t[m].ok /\ commits = r.snap.commits + 1)
    /\ (r.pc = "done" /\ m > 0 /\ t[m].dv = "none") =>
         /\ commits = r.snap.commits
         /\ ~merging[r.cwd]

C7_Witness ==
  \E p \in Syncs :
    LET t == proc[p].trace.ev
        m == At(p, "merge") IN
    /\ proc[p].pc = "done"
    /\ m > 0 /\ t[m].dv = "none" /\ t[m].ok

\* C8: when the selected branch has a worktree whose directory is on another
\* branch, sync ends with the mismatch error and issues neither checkout nor
\* merge; every checkout of sync is in the repository root, for a branch
\* without a worktree, and precedes the merge.
C8_WorktreeMismatchFails ==
  \A p \in Syncs :
    LET r == proc[p]
        t == r.trace.ev
        h == At(p, QHead)
        c == At(p, "checkout")
        m == At(p, "merge") IN
    /\ (h > 0 /\ t[h].ok /\ r.worktreePath # NoDir /\ t[h].out # {r.branch}) =>
         /\ r.pc = "done"
         /\ Last(t) = UiEv("error", {"Worktree mismatch"} \cup t[h].out \cup {r.branch})
         /\ c = 0
         /\ m = 0
    /\ c > 0 =>
         /\ r.worktreePath = NoDir
         /\ t[c].dir = r.repoRoot
         /\ t[c].out = {r.branch}
         /\ CountEv(t, "checkout") = 1
         /\ m > 0 => c < m

C8_Witness ==
  \E p \in Syncs :
    LET t == proc[p].trace.ev
        h == At(p, QHead) IN
    /\ proc[p].pc = "done"
    /\ proc[p].worktreePath # NoDir
    /\ h > 0 /\ t[h].ok /\ t[h].out # {proc[p].branch}

\* C9: when sync's merge failed and the conflict query gave no files, sync
\* is over, its last report is the merge error carrying the executor's
\* message, no conflict prompt was offered and nothing was issued after the
\* query.
C9_MergeErrorWithoutConflicts ==
  \A p \in Syncs :
    LET r == proc[p]
        t == r.trace.ev
        m == At(p, "merge")
        q == At(p, QConflicts) IN
    (m > 0 /\ ~t[m].ok /\ q > 0 /\ t[q].out = {}) =>
      /\ r.pc = "done"
      /\ After(t, m) = <<t[q], UiEv("error", {"Merge failed", ErrMsg("merge")})>>
      /\ At(p, "conflictPrompt") = 0
      /\ At(p, "merge --abort") = 0

C9_Witness ==
  \E p \in Syncs :
    LET t == proc[p].trace.ev
        m == At(p, "merge")
        q == At(p, QConflicts) IN
    /\ proc[p].pc = "done"
    /\ m > 0 /\ ~t[m].ok
    /\ q > 0 /\ t[q].ok /\ t[q].out = {}

\* C10: the executor calls of one sync occur in the order fetch, default
\* branch resolution, current-branch query of the target directory, checkout
\* (if any), merge; each is issued only after the earlier ones, and after a
\* failed fetch sync is over with the fetch error surfaced and neither
\* checkout nor merge issued.
C10_SyncStepOrder ==
  \A p \in Syncs :
    LET r == proc[p]
        t == r.trace.ev
        f == At(p, "fetch")
        s == At(p, "symbolic-ref")
        h == At(p, QHead)
        c == At(p, "checkout")
        m == At(p, "merge") IN
    /\ s > 0 => (f > 0 /\ t[f].ok /\ f < s)
    /\ h > 0 => (s > 0 /\ s < h)
    /\ c > 0 => (h > 0 /\ t[h].ok /\ h < c)
    /\ m > 0 => (h > 0 /\ t[h].ok /\ h < m /\ (c > 0 => c < m))
    /\ (f > 0 /\ ~t[f].ok) =>
         /\ r.pc = "done"
         /\ Last(t) = UiEv("error", {"Sync failed", ErrMsg("fetch")})
         /\ c = 0
         /\ m = 0

C10_Witness ==
  \E p \in Syncs :
    LET t == proc[p].trace.ev
        f == At(p, "fetch") IN
    /\ proc[p].pc = "done"
    /\ f > 0 /\ ~t[f].ok

\* ------------------------------------------------------- removal claims
Removes == {p \in Procs : proc[p].kind = "remove"}
\* positions of the events of t for command op on branch b
EvsOn(t, op, b) == {i \in 1..Len(t) : t[i].op = op /\ t[i].out = {b}}
\* positions of the events of t for command op
EvsFor(t, op) == {i \in 1..Len(t) : t[i].op = op}
RemovalOps == {"worktree remove", "branch -D", "push --delete"}
SelectedBranches(r) == {r.selected[k].branch : k \in 1..Len(r.selected)}
\* the warnings of t that name branch b as failed
FailedWarnings(t, b) == {i \in 1..Len(t) : t[i].op = "warn:failed" /\ b \in t[i].out}

\* C11: the branch that the current-branch query of a removal returned is
\* never among the candidates offered, and no remove-worktree, delete-branch
\* or delete-remote-branch call is issued for it; when the listing holds no
\* other branch, the removal issues no mutating call and ends with "no
\* branches to remove".
C11_CurrentBranchNeverCandidate ==
  \A p \in Removes :
    LET r == proc[p]
        t == r.trace.ev
        h == At(p, QHead) IN
    (h > 0 /\ t[h].ok) =>
      /\ \A i \in 1..Len(t) :
           /\ t[i].op = "offer" => t[i].out \cap t[h].out = {}
           /\ t[i].op \in RemovalOps => t[i].out # t[h].out
      /\ \A i \in EvsFor(t, "branch") :
           (t[i].ok /\ t[i].out \subseteq t[h].out) =>
             /\ \A j \in 1..Len(t) : ~IsMutating(t[j])
             /\ r.pc \in {"rm_worktrees", "done"}
             /\ (r.pc = "done" /\ EvsFor(t, "error") = {}) =>
                  Last(t) = UiEv("info", {"No branches to remove"} \cup t[h].out)

C11_Witness ==
  \E p \in Removes :
    LET t == proc[p].trace.ev IN
    /\ proc[p].pc = "done"
    /\ Last(t) = UiEv("info", {"No branches to remove", "main"})
    /\ branches = {"main"}

\* the first removal command of an item
FirstOpOf(item) == IF item.worktreePath # NoDir THEN "worktree remove" ELSE "branch -D"
\* the positions where a removal step of branch b failed and failed the item
FailedSteps(t, b) ==
  {i \in EvsOn(t, "worktree remove", b) \cup EvsOn(t, "branch -D", b) : ~t[i].ok}

\* C12: a removal whose confirmation was accepted ends only after every
\* selected branch had its first removal step issued, whatever failed for the
\* others, without an error ending the invocation; every failed step of a
\* branch is followed by a warning naming the branch and the reason.
C12_BatchSurvivesItemFailure ==
  \A p \in Removes :
    LET r == proc[p]
        t == r.trace.ev IN
    r.i > 0 =>
      /\ EvsFor(t, "error") = {}
      /\ \A b \in SelectedBranches(r) :
           \A i \in FailedSteps(t, b) :
             /\ i < Len(t)
             /\ t[i + 1] = UiEv("warn:failed", {b, ErrMsg(t[i].op)})
      /\ r.pc = "done" =>
           \A k \in 1..Len(r.selected) :
             EvsOn(t, FirstOpOf(r.selected[k]), r.selected[k].branch) # {}

C12_Witness ==
  \E p \in Removes :
    LET r == proc[p]
        t == r.trace.ev IN
    /\ r.pc = "done"
    /\ Len(r.selected) = 2
    /\ FailedSteps(t, r.selected[1].branch) # {}
    /\ \E i \in EvsOn(t, "branch -D", r.selected[2].branch) : t[i].ok

\* C13: for each selected branch the removal issues at most one
\* remove-worktree (only for a branch with a worktree), one delete-branch and
\* one delete-remote-branch, in that order; delete-branch is issued only
\* after a successful remove-worktree when the branch has a worktree, and
\* delete-remote-branch only after a successful delete-branch.
C13_RemovalStepOrder ==
  \A p \in Removes :
    LET r == proc[p]
        t == r.trace.ev IN
    \A k \in 1..Len(r.selected) :
      LET it == r.selected[k]
          W == EvsOn(t, "worktree remove", it.branch)
          D == EvsOn(t, "branch -D", it.branch)
          R == EvsOn(t, "push --delete", it.branch) IN
      /\ Cardinality(W) <= 1 /\ Cardinality(D) <= 1 /\ Cardinality(R) <= 1
      /\ W # {} => it.worktreePath # NoDir
      /\ \A d \in D :
           it.worktreePath # NoDir => \E w \in W : w < d /\ t[w].ok
      /\ \A x \in R : \E d \in D : d < x /\ t[d].ok

C13_Witness ==
  \E p \in Removes :
    LET r == proc[p]
        t == r.trace.ev IN
    /\ r.pc = "done"
    /\ \E k \in 1..Len(r.selected) :
         /\ \E w \in EvsOn(t, "worktree remove", r.selected[k].branch) : ~t[w].ok
         /\ EvsOn(t, "branch -D", r.selected[k].branch) = {}
    /\ \E k \in 1..Len(r.selected) :
         \E x \in EvsOn(t, "push --delete", r.selected[k].branch) : t[x].ok

\* C14: delete-remote-branch is issued only in a removal confirmed with
\* "Delete + Remove Remote"; a branch whose delete-remote-branch failed is
\* never warned about as failed, and the removal still ends with every
\* selected branch attempted.
C14_RemoteDeleteBestEffort ==
  \A p \in Removes :
    LET r == proc[p]
        t == r.trace.ev IN
    /\ EvsFor(t, "push --delete") # {} =>
         (r.deleteRemote /\ At(p, "confirm") > 0
            /\ t[At(p, "confirm")].out = {"Delete + Remove Remote"})
    /\ \A b \in SelectedBranches(r) :
         \A x \in EvsOn(t, "push --delete", b) :
           ~t[x].ok =>
             /\ FailedWarnings(t, b) = {}
             /\ EvsFor(t, "error") = {}
             /\ r.pc = "done" =>
                  \A k \in 1..Len(r.selected) :
                    EvsOn(t, FirstOpOf(r.selected[k]), r.selected[k].branch) # {}

C14_Witness ==
  \E p \in Removes :
    LET r == proc[p]
        t == r.trace.ev IN
    /\ r.pc = "done"
    /\ Len(r.selected) = 2
    /\ \E x \in EvsOn(t, "push --delete", r.selected[1].branch) : ~t[x].ok
    /\ \E d \in EvsOn(t, "branch -D", r.selected[2].branch) : t[d].ok

\* C15: the final report of a removal names as removed only branches whose
\* delete-branch call succeeded, and every selected branch is either in the
\* report or in a failure warning, never in both.
C15_ReportPartitionsSelection ==
  \A p \in Removes :
    LET r == proc[p]
        t == r.trace.ev IN
    (r.pc = "done" /\ r.i > 0) =>
      \A b \in SelectedBranches(r) :
        LET succeeded == \E i \in EvsFor(t, "info:removed") : b \in t[i].out
            failed == FailedWarnings(t, b) # {} IN
        /\ succeeded # failed
        /\ succeeded => \E d \in EvsOn(t, "branch -D", b) : t[d].ok

\* ------------------------------------------------------ creation claims
Creates == {p \in Procs : proc[p].kind = "create"}
\* a name that is empty, whitespace-only or contains whitespace
InvalidName(v) ==
  Len(Chars(v)) = 0 \/ \E k \in 1..Len(Chars(v)) : Chars(v)[k] \in Whitespace
\* the name box accepted a value at position k of t
Accepted(t, k) == t[k].op = "inputBox" /\ t[k].out # {}

\* C17 as stated: when a name is rejected no executor call has been issued
\* by the invocation, and worktree creation is never issued with an invalid
\* name.
C17_RejectedBeforeAnyExecutorCall ==
  \A p \in Creates :
    LET r == proc[p]
        t == r.trace.ev IN
    /\ \A i \in EvsFor(t, "nameRejected") : \A j \in 1..Len(t) : t[j].k # "git"
    /\ EvsFor(t, "worktree add") # {} => ~InvalidName(r.newBranchName)

\* C17 amended: the name box accepts no invalid name, every rejected entry
\* is invalid, no executor call follows a rejection unless a valid name was
\* accepted after it, and worktree creation is issued only with the accepted,
\* valid name (the fetch and listing calls of the mode precede the box).
C17_InvalidNameNeverReachesExecutor ==
  \A p \in Creates :
    LET r == proc[p]
        t == r.trace.ev IN
    /\ \A i \in 1..Len(t) : Accepted(t, i) => \A v \in t[i].out : ~InvalidName(v)
    /\ \A i \in EvsFor(t, "nameRejected") :
         /\ \A v \in t[i].out : InvalidName(v)
         /\ \A j \in (i + 1)..Len(t) :
              t[j].k = "git" => \E k \in (i + 1)..(j - 1) : Accepted(t, k)
    /\ \A i \in EvsFor(t, "worktree add") :
         /\ ~InvalidName(r.newBranchName)
         /\ r.newBranchName \in t[i].out
         /\ \E k \in 1..(i - 1) : Accepted(t, k) /\ t[k].out = {r.newBranchName}

C17_Witness ==
  \E p \in Creates :
    LET t == proc[p].trace.ev IN
    /\ proc[p].pc = "done"
    /\ \E i \in EvsFor(t, "nameRejected") : t[i].out = {"a b"}
    /\ \E i \in EvsFor(t, "worktree add") : t[i].ok /\ "nb" \in t[i].out
    /\ At(p, "fetch") > 0

\* C18: a creation issues at most one worktree creation, naming the new
\* branch, its base and its path, and no other mutating call than the
\* fetches of its mode; once it succeeded the branch exists and is checked
\* out at that path, and every branch created by the workflow has a
\* worktree.
C18_SingleCreateCall ==
  /\ \A b \in branches \ Branches : \E d \in DOMAIN head : head[d] = b
  /\ \A p \in Creates :
       LET r == proc[p]
           t == r.trace.ev
           A == EvsFor(t, "worktree add") IN
       /\ Cardinality(A) <= 1
       /\ \A i \in 1..Len(t) :
            IsMutating(t[i]) => t[i].op \in {"fetch", "fetch --all", "worktree add"}
       /\ \A i \in A :
            /\ t[i].out = {r.newBranchName, r.worktreePath, r.baseBranch}
            /\ t[i].ok =>
                 /\ r.newBranchName \in branches
                 /\ r.worktreePath \in DOMAIN head
                 /\ head[r.worktreePath] = r.newBranchName
       /\ r.pc = "c_open" => \E i \in A : t[i].ok

C18_Witness ==
  \E p \in Creates :
    LET r == proc[p]
        t == r.trace.ev IN
    /\ r.pc = "done"
    /\ \E i \in EvsFor(t, "worktree add") : t[i].ok
    /\ r.newBranchName = "feat/x"
    /\ r.baseBranch = "fy"
    /\ "root-worktrees/feat-x" \in DOMAIN head

\* C19: a finished creation whose worktree creation succeeded requested
\* the new directory to be opened and fired the notification; one whose
\* worktree creation failed did neither, issued it once and ends with the
\* executor's message.
C19_CreateSuccessNotifiesAndOpens ==
  \A p \in Creates :
    LET r == proc[p]
        t == r.trace.ev IN
    \A i \in EvsFor(t, "worktree add") :
      /\ (t[i].ok /\ r.pc = "done") =>
           /\ \E j \in (i + 1)..Len(t) : t[j] = UiEv("openFolder", {r.worktreePath})
           /\ \E j \in (i + 1)..Len(t) : t[j].op = "notifyGitChange"
      /\ ~t[i].ok =>
           /\ r.pc = "done"
           /\ Cardinality(EvsFor(t, "worktree add")) = 1
           /\ EvsFor(t, "openFolder") = {} /\ EvsFor(t, "notifyGitChange") = {}
           /\ Last(t) = UiEv("error", {ErrPrefix("create"), ErrMsg("worktree add")})

\* C21: the worktree path of root R and branch B is R's directory, then
\* <basename(R)>-worktrees, then one final segment S that has no separator
\* and is B with every separator replaced by a hyphen.
C21_WorktreePathShape ==
  \A p \in Creates :
    LET r == proc[p]
        t == r.trace.ev
        R == Chars(r.repoRoot)
        B == Chars(r.newBranchName) IN
    \A i \in EvsFor(t, "worktreePath") :
      LET cs == t[i].out
          k == Len(cs) - Len(B) IN
      /\ Concat(cs) = r.worktreePath
      /\ Len(B) > 0 /\ k >= 3
      /\ cs[k] = "/"
      /\ \A j \in 1..Len(B) :
           /\ cs[k + j] # "/"
           /\ cs[k + j] = IF B[j] = "/" THEN "-" ELSE B[j]
      /\ cs[k - 1] = "-worktrees"
      /\ SubSeq(cs, 1, k - 2) = R

C21_Witness ==
  \E p \in Creates :
    /\ proc[p].pc = "done"
    /\ proc[p].repoRoot = "/w/x/repo"
    /\ proc[p].newBranchName = "a/b/c"
    /\ proc[p].worktreePath = "/w/x/repo-worktrees/a-b-c"
    /\ EvsFor(proc[p].trace.ev, "worktreePath") # {}

\* C25: the resolved base is the target of origin/HEAD when the symbolic-ref
\* query succeeded; otherwise origin/main is verified first and returned when
\* it verifies; otherwise origin/master is returned only after it verified,
\* and when nothing verified the invocation ends with the failure and
\* issues no further executor call.
C25_DefaultBranchVerified ==
  \A p \in Creates :
    LET r == proc[p]
        t == r.trace.ev
        a == At(p, "symbolic-ref") IN
    a > 0 =>
      IF t[a].ok THEN r.baseBranch = remote.HEAD
      ELSE /\ a < Len(t)
           /\ t[a + 1].op = "rev-parse --verify origin/main"
           /\ t[a + 1].ok => r.baseBranch = "origin/main"
           /\ ~t[a + 1].ok =>
                \/ /\ r.baseBranch = "origin/master"
                   /\ a + 1 < Len(t)
                   /\ t[a + 2].op = "rev-parse --verify origin/master"
                   /\ t[a + 2].ok
                \/ /\ r.baseBranch = NoBranch
                   /\ r.pc = "done"
                   /\ Last(t).op = "error"
                   /\ \A j \in (a + 2)..Len(t) : t[j].k # "git"

\* the same command with the same arguments in the same directory
SameCall(e, f) == e.op = f.op /\ e.dir = f.dir /\ e.out = f.out
\* the mutating calls of t that failed
FailedMutations(t) == {i \in 1..Len(t) : IsMutating(t[i]) /\ ~t[i].ok}

\* C27 as stated: a failed mutating call is never issued again, and outside
\* removal no mutating call follows a failed one.
C27_NothingAfterFailedMutation ==
  \A p \in Procs :
    LET r == proc[p]
        t == r.trace.ev IN
    \A i \in FailedMutations(t) : \A j \in (i + 1)..Len(t) :
      IsMutating(t[j]) => r.kind = "remove" /\ ~SameCall(t[i], t[j])

\* C27 amended: a failed mutating call is never issued again, and outside
\* removal the only mutating call after a failed one is the merge --abort
\* of sync, issued once, after the merge stopped on conflicts and the user
\* chose "Abort Merge".
C27_NoAutomaticRetry ==
  \A p \in Procs :
    LET r == proc[p]
        t == r.trace.ev IN
    \A i \in FailedMutations(t) : \A j \in (i + 1)..Len(t) :
      IsMutating(t[j]) =>
        /\ ~SameCall(t[i], t[j])
        /\ r.kind # "remove" =>
             /\ r.kind = "sync"
             /\ t[i].op = "merge" /\ t[j].op = "merge --abort"
             /\ j > 1 /\ t[j - 1] = UiEv("conflictChoice", {"Abort Merge"})
             /\ \A k \in (i + 1)..Len(t) : IsMutating(t[k]) => k = j

C27_Witness ==
  \E p \in Procs :
    LET r == proc[p]
        t == r.trace.ev IN
    /\ r.kind = "sync" /\ r.pc = "done"
    /\ \E i \in FailedMutations(t) : t[i].op = "checkout"
    /\ Last(t).op = "error"

\* C26: the root an invocation works on was validated by the root query of
\* this invocation, or selected in it after the cached root was missing or
\* failed the query; when the selection prompt is reached the selection is
\* cleared in memory and in the persisted state, and a returned root is the
\* current selection in both.
C26_RootRevalidated ==
  \A p \in Procs :
    LET r == proc[p]
        t == r.trace.ev
        Validated(e) == e.k = "git" /\ e.op = QRoot /\ e.ok /\ e.dir = r.repoRoot
        Rejected(e) == e.k = "git" /\ e.op = QRoot /\ ~e.ok
        Picked(e) == e = UiEv("repoPick", {r.repoRoot}) IN
    /\ r.pc = "selectRepo" => selectedRepo = NoRepo /\ workspaceState = NoRepo
    /\ r.pc = "selectRepo" => t = <<>> \/ (Len(t) = 1 /\ Rejected(t[1]))
    /\ r.repoRoot # NoRepo =>
         /\ Len(t) >= 1
         /\ \/ Validated(t[1])
            \/ Picked(t[1])
            \/ Rejected(t[1]) /\ Len(t) >= 2 /\ Picked(t[2])
         /\ selectedRepo = r.repoRoot /\ workspaceState = r.repoRoot
    /\ \A i \in 2..Len(t) : t[i].op # QRoot

C26_Witness ==
  \E p \in Procs :
    LET r == proc[p]
        t == r.trace.ev IN
    /\ r.repoRoot = Root
    /\ Len(t) >= 3
    /\ t[1].op = QRoot /\ ~t[1].ok
    /\ t[2] = UiEv("repoPick", {Root})
    /\ r.snap.commits = 0 /\ invoked = 2

\* the commands resync hands to the executor once it has its root
ResyncOps == {QMerging, QConflicts, QList, "add -A", "commit --no-edit", QHead}

\* C29: every executor call of a resync invocation after the validation of
\* its root is one of the merge-in-progress query, the conflict-file query,
\* stage-all, commit and the branch-name query, and targets the first open
\* workspace folder, else the repository root; a step of the invocation
\* leaves the branch, merge and conflict state of every other directory,
\* the branch list and the remote as they were.
C29_ResyncStaysInAmbientDirectory ==
  [][\A p \in Procs :
       LET r == proc'[p]
           t == r.trace.ev
           ambient == IF r.workspaceFolder # NoDir THEN r.workspaceFolder
                      ELSE r.repoRoot IN
       r.kind = "resync" =>
         /\ \A i \in 1..Len(t) :
              (t[i].k = "git" /\ t[i].op # QRoot) =>
                t[i].dir = ambient /\ t[i].op \in ResyncOps
         /\ r # proc[p] =>
              /\ \A d \in Dirs \ {ambient} :
                   /\ head'[d] = head[d]
                   /\ merging'[d] = merging[d]
                   /\ conflicts'[d] = conflicts[d]
              /\ branches' = branches /\ remote' = remote]_vars

C29_Witness ==
  \E p \in Resyncs :
    LET r == proc[p]
        t == r.trace.ev IN
    /\ r.workspaceFolder = WT /\ r.repoRoot = Root
    /\ r.pc = "done"
    /\ At(p, "commit --no-edit") # 0
    /\ t[At(p, "commit --no-edit")].ok
    /\ t[At(p, "commit --no-edit")].dir = WT
    /\ At(p, QHead) # 0

\* the event that follows event e in the trace of a resync
ResyncThen(e) ==
  CASE e.op = QMerging -> IF e.ok THEN QConflicts ELSE "info"
    [] e.op = QConflicts -> IF e.ok /\ e.out # {} THEN QList ELSE "add -A"
    [] e.op = QList -> "warn:unresolved"
    [] e.op = "add -A" -> IF e.ok THEN "commit --no-edit" ELSE "error"
    [] e.op = "commit --no-edit" -> IF e.ok THEN QHead ELSE "error"
    [] e.op = QHead -> IF e.ok THEN "info" ELSE "error"

\* C30: what a resync does is determined, call by call, by the sync state of
\* its directory when the call is issued and by the executor's answer, in
\* every session, whatever was invoked before: the first call is the
\* merge-in-progress query, which succeeds only outside Idle (and, when no
\* executor call of the session failed for another reason, exactly outside
\* Idle); an answered conflict query lists files exactly in Conflicted; the
\* commit succeeds only in ReadyToFinalize; and each call is followed by the
\* one event its answer selects.
C30_ResyncDeterminedBySyncState ==
  \A p \in Resyncs :
    LET r == proc[p]
        t == r.trace.ev
        calls == {i \in 1..Len(t) : t[i].k = "git" /\ t[i].op \in ResyncOps} IN
    /\ \A i \in calls :
         /\ At(p, QMerging) \in 1..i
         /\ IF i < Len(t) THEN t[i + 1].op = ResyncThen(t[i])
            ELSE r.pc \notin {"idle", "done"}
         /\ t[i].op = QMerging =>
              /\ t[i].ok => t[i].st # "Idle"
              /\ faults = 0 => (t[i].ok <=> t[i].st # "Idle")
         /\ (t[i].op = QConflicts /\ t[i].ok) =>
              (t[i].out # {} <=> t[i].st = "Conflicted")
         /\ (t[i].op = "commit --no-edit" /\ t[i].ok) =>
              t[i].st = "ReadyToFinalize"
    /\ (Len(t) > 0 /\ Last(t).op \in {"info", "warn:unresolved", "error"}) =>
         r.pc = "done"

C30_Witness ==
  \E p \in Resyncs :
    LET r == proc[p]
        t == r.trace.ev
        q == At(p, QConflicts) IN
    /\ invoked = 2
    /\ r.pc = "done"
    /\ q > 0 /\ t[q].ok /\ t[q].st = "ReadyToFinalize"
    /\ r.snap.merging[r.cwd]
    /\ Last(t) = UiEv("info", {"Re-sync complete", head[r.cwd]})

\* ------------------------------------------------------- overlap claims
InFlight(r) == r.pc \notin {"idle", "done"}
\* invocation p has changed directory d
HasMutated(p, d) ==
  \E i \in 1..Len(proc[p].trace.ev) :
    LET e == proc[p].trace.ev[i] IN IsMutating(e) /\ e.ok /\ e.dir = d

\* C28: while an invocation that has changed a directory is still in
\* flight, a mutating call of another invocation on the same directory
\* fails, and that invocation ends there with the executor's error.
C28_SecondMutationFails ==
  [][\A q \in Procs : \A p \in Procs \ {q} :
       LET t == proc[q].trace.ev
           u == proc'[q].trace.ev IN
       (Len(u) > Len(t) /\ InFlight(proc[p])) =>
         \A j \in (Len(t) + 1)..Len(u) :
           (IsMutating(u[j]) /\ HasMutated(p, u[j].dir)) =>
             /\ ~u[j].ok
             /\ proc'[q].pc = "done"
             /\ Last(u) = UiEv("error", {ErrPrefix(proc[q].kind), ErrMsg(u[j].op)})]_vars

\* -------------------------------------------------------- switch claims
Switches == {p \in Procs : proc[p].kind = "switch"}
\* the positions of t at which a branch was picked
Picks(t) == {i \in EvsFor(t, "quickPick") : t[i].out # {}}

\* C22: once the current branch of the open directory is selected, the
\* invocation ends with the success message "Already on" and issues no
\* executor call and no open-directory request after the selection.
C22_SwitchToCurrentIsNoOp ==
  \A p \in Switches :
    LET r == proc[p]
        t == r.trace.ev IN
    \A q \in Picks(t) :
      (r.branch = r.currentBranch /\ r.worktreePath = r.repoRoot) =>
        /\ r.pc = "done"
        /\ Len(t) = q + 1
        /\ t[q + 1] = UiEv("info", {"Already on", r.currentBranch})
        /\ \A j \in (q + 1)..Len(t) :
             t[j].k # "git" /\ t[j].op \notin {"openFolder", "error"}

C22_Witness ==
  \E p \in Switches :
    LET r == proc[p]
        t == r.trace.ev IN
    /\ r.pc = "done"
    /\ Picks(t) # {}
    /\ r.branch = "main" /\ r.currentBranch = "main" /\ r.worktreePath = Root
    /\ r.repoRoot = Root

\* C23: a selection whose worktree is not the open directory only leads
\* to the request to open that worktree: the invocation issues no mutating
\* executor call and, after the selection, no executor call at all; a
\* checkout is issued only for a selection without a worktree.
C23_WorktreeSelectionOnlyOpens ==
  \A p \in Switches :
    LET r == proc[p]
        t == r.trace.ev IN
    /\ \A i \in EvsFor(t, "checkout") : Picks(t) # {} /\ r.worktreePath = NoDir
    /\ \A i \in EvsFor(t, "stash push") : Picks(t) # {} /\ r.worktreePath = NoDir
    /\ \A q \in Picks(t) :
         (r.worktreePath # NoDir /\ r.worktreePath # r.repoRoot) =>
           /\ \A j \in 1..Len(t) : ~IsMutating(t[j])
           /\ \A j \in (q + 1)..Len(t) : t[j].k = "ui"
           /\ r.pc \in {"sw_open", "done"}
           /\ r.pc = "done" => q < Len(t) /\ t[q + 1] = UiEv("openFolder", {r.worktreePath})

C23_Witness ==
  \E p \in Switches :
    LET r == proc[p]
        t == r.trace.ev IN
    /\ r.pc = "done"
    /\ r.branch = "fx" /\ r.worktreePath = WT
    /\ Last(t) = UiEv("info", {"Opened worktree", "fx"})

\* C24: a checkout follows a status that found the directory dirty only
\* after a stash push of the same invocation succeeded; the dirty directory
\* is put before the user with exactly two choices; after "Cancel" or a
\* dismissal, and after a failed stash push, neither stash nor checkout
\* is issued.
C24_NoCheckoutOverDirtyState ==
  \A p \in Switches :
    LET r == proc[p]
        t == r.trace.ev
        Dirty == {i \in EvsFor(t, "status") : t[i].out # {}} IN
    /\ \A c \in EvsFor(t, "checkout") :
         /\ \E s \in EvsFor(t, "status") : s < c /\ t[s].ok
         /\ \A s \in Dirty :
              \E k \in EvsFor(t, "stash push") : s < k /\ k < c /\ t[k].ok
    /\ \A s \in Dirty :
         s < Len(t) /\ t[s + 1] = UiEv("dirtyPrompt", DirtyChoices)
    /\ \A i \in EvsFor(t, "dirtyPrompt") :
         Cardinality(t[i].out) = 2 /\ i - 1 \in Dirty
    /\ \A i \in EvsFor(t, "dirtyChoice") :
         t[i].out # {StashChoice} =>
           /\ r.pc = "done"
           /\ \A j \in (i + 1)..Len(t) : t[j].k # "git"
           /\ EvsFor(t, "stash push") = {} /\ EvsFor(t, "checkout") = {}
    /\ \A k \in EvsFor(t, "stash push") :
         /\ \E i \in EvsFor(t, "dirtyChoice") : i < k /\ t[i].out = {StashChoice}
         /\ ~t[k].ok => r.pc = "done" /\ EvsFor(t, "checkout") = {}

C24_Witness ==
  \E p \in Switches :
    LET r == proc[p]
        t == r.trace.ev IN
    /\ r.pc = "done"
    /\ \E s \in EvsFor(t, "status") : t[s].out # {}
    /\ \E k \in EvsFor(t, "stash push") : t[k].ok
    /\ \E c \in EvsFor(t, "checkout") : t[c].ok
    /\ head[Root] = r.branch /\ r.branch = "fy"

\* ------------------------------------------------- cross-workflow claims
\* the call whose success completes the mutation of a workflow
CompletingOp(kind) ==
  CASE kind = "sync" -> "merge"
    [] kind = "resync" -> "commit --no-edit"
    [] kind = "remove" -> "branch -D"
    [] kind = "create" -> "worktree add"
    [] kind = "switch" -> "checkout"
    [] OTHER -> "none"

\* C16: a finished invocation whose completing call succeeded (the merge of
\* sync, the commit of resync, a delete-branch of removal, the worktree
\* creation, the checkout of switch) fired the repository-state-changed
\* notification after it.
C16_MutationNotifies ==
  \A p \in Procs :
    LET r == proc[p]
        t == r.trace.ev IN
    r.pc = "done" =>
      \A i \in 1..Len(t) :
        (t[i].k = "git" /\ t[i].op = CompletingOp(r.kind) /\ t[i].ok) =>
          \E j \in (i + 1)..Len(t) : t[j].op = "notifyGitChange"

\* a prompt that was cancelled or dismissed
IsCancel(e) ==
  /\ e.k = "ui"
  /\ \/ e.op \in {"quickPick", "repoPick", "inputBox"} /\ e.out = {}
     \/ e.op \in {"conflictChoice", "confirm", "dirtyChoice"} /\ e.out = {"dismissed"}

\* C20: a cancelled or dismissed prompt is the last event of its invocation:
\* the invocation is over, no error is surfaced and no executor call
\* follows.
C20_CancelIsSilent ==
  \A p \in Procs :
    LET r == proc[p]
        t == r.trace.ev IN
    \A i \in 1..Len(t) :
      IsCancel(t[i]) => (i = Len(t) /\ r.pc = "done")

\* the commands whose failure is caught where they are issued: the root
\* validation, the merge-in-progress and conflict queries, the probes for
\* the default remote branch, and the best-effort delete of the remote branch
LocallyCaughtOps ==
  {QRoot, QMerging, QConflicts, QList, "symbolic-ref",
   "rev-parse --verify origin/main", "push --delete"}

\* the failure of command op is shown to the user by event e
Surfaces(e, op) == e.op \in {"error", "warn:failed"} /\ ErrMsg(op) \in e.out

C32_PrimaryDirectoryNeverRemoved ==
  \A p \in Removes :
    LET r == proc[p]
        t == r.trace.ev IN
    \A k \in 1..Len(r.selected) :
      r.selected[k].worktreePath = Root =>
        EvsOn(t, "worktree remove", r.selected[k].branch) = {}

\* C33: every remove-worktree, delete-branch and delete-remote-branch call
\* of a removal comes after a confirmation answered "Delete" or "Delete +
\* Remove Remote"; after an empty selection or a dismissed confirmation the
\* removal is over and has issued no mutating call; and the confirmation
\* text names the selected branches and carries the notice that worktree
\* directories will be removed exactly when a selected branch has a worktree.
C33_NothingDestructiveBeforeConfirm ==
  \A p \in Removes :
    LET r == proc[p]
        t == r.trace.ev
        c == At(p, "confirm")
        Notices == {WorktreeNotice(n) : n \in 1..2} IN
    /\ \A i \in 1..Len(t) :
         (t[i].k = "git" /\ t[i].op \in RemovalOps) =>
           (0 < c /\ c < i /\ t[c].out \in {{"Delete"}, {"Delete + Remove Remote"}})
    /\ \A i \in 1..Len(t) :
         (t[i] = UiEv("quickPick", {}) \/ t[i] = UiEv("confirm", {"dismissed"})) =>
           /\ r.pc = "done" /\ i = Len(t)
           /\ \A j \in 1..Len(t) : ~IsMutating(t[j])
    /\ c > 0 =>
         /\ t[c - 1].op = "confirmPrompt"
         /\ SelectedBranches(r) \subseteq t[c - 1].out
         /\ (\E k \in 1..Len(r.selected) : r.selected[k].worktreePath # NoDir)
              <=> (t[c - 1].out \cap Notices # {})

C33_Witness ==
  \E p \in Removes :
    LET r == proc[p]
        t == r.trace.ev
        c == At(p, "confirm") IN
    /\ r.pc = "done"
    /\ c > 1 /\ t[c].out = {"Delete"}
    /\ WorktreeNotice(1) \in t[c - 1].out
    /\ \E i \in EvsFor(t, "worktree remove") : c < i /\ t[i].ok

\* ----------------------------------------------------------- push claims
Pushes == {p \in Procs : proc[p].kind = "push"}
\* the positions of t at which a push was issued
PushCalls(t) == EvsFor(t, "push") \cup EvsFor(t, "push -u")

\* C34: a push workflow issues at most one push, only after the confirmation
\* was answered "push", never for a branch whose upstream had all its
\* commits when the workflow was invoked, and as plain push exactly when the
\* branch had an upstream then (push with set-upstream otherwise); after a
\* cancelled or dismissed confirmation the workflow is over without a push.
C34_PushOnlyConfirmedAndByUpstream ==
  \A p \in Pushes :
    LET r == proc[p]
        t == r.trace.ev
        up == r.snap.upstream[r.branch] IN
    /\ Cardinality(PushCalls(t)) <= 1
    /\ \A i \in PushCalls(t) :
         /\ i > 1 /\ t[i - 1] = UiEv("quickPick", {"push"})
         /\ up # "synced"
         /\ t[i].op = "push" <=> up # "none"
    /\ \A c \in EvsFor(t, "quickPick") :
         t[c].out # {"push"} => (r.pc = "done" /\ PushCalls(t) = {})

\* ----------------------------------------------- sync checkout claims
\* the commands and prompts of the dirty-state check of the switch workflow
DirtyCheckOps == {"status", "stash push", "dirtyPrompt", "dirtyChoice"}

\* C35: when the selected branch has no worktree and the branch query finds
\* the repository root on another branch, sync issues the checkout of the
\* selected branch in the root as its next call, with no status query and no
\* stash offer anywhere in the invocation; once that checkout succeeded the
\* root is on the selected branch, not on the branch it was on, however the
\* sync ends.
C35_SyncChecksOutWithoutRestore ==
  \A p \in Syncs :
    LET r == proc[p]
        t == r.trace.ev
        c == At(p, "checkout") IN
    /\ \A i \in 1..Len(t) : t[i].op \notin DirtyCheckOps
    /\ \A i \in EvsFor(t, QHead) :
         (t[i].ok /\ t[i].out # {r.branch} /\ r.worktreePath = NoDir) =>
           (r.pc = "s_checkout" \/ c = i + 1)
    /\ c > 0 =>
         /\ r.worktreePath = NoDir /\ t[c].dir = r.repoRoot
         /\ t[c - 1].op = QHead /\ t[c - 1].ok /\ t[c - 1].out # {r.branch}
         /\ t[c].ok => (head[r.repoRoot] = r.branch /\ t[c - 1].out # {head[r.repoRoot]})

C35_Witness ==
  \E p \in Syncs :
    LET r == proc[p]
        t == r.trace.ev
        c == At(p, "checkout")
        a == At(p, "merge --abort") IN
    /\ r.pc = "done"
    /\ c > 0 /\ t[c].ok /\ t[c - 1].out = {"main"}
    /\ a > 0 /\ t[a].ok
    /\ head[Root] = "fy"

\* C36: a sync whose merge command is issued in a directory with a merge in
\* progress gets the command refused and creates no commit; when its
\* conflict query then runs in a Conflicted directory the conflict prompt
\* follows, and the merge stays in progress unless "Abort Merge" is chosen;
\* when it runs in ReadyToFinalize the merge failure is surfaced, the sync
\* is over and the merge is still in progress.
C36_SyncOnPendingMerge ==
  \A p \in Syncs :
    LET r == proc[p]
        t == r.trace.ev
        m == At(p, "merge")
        q == At(p, QConflicts) IN
    (m > 0 /\ t[m].st # "Idle") =>
      /\ ~t[m].ok
      /\ CountEv(t, "merge") = 1
      /\ commits = r.snap.commits
      /\ (q > 0 /\ t[q].st = "Conflicted") =>
           /\ t[q + 1].op = "conflictPrompt"
           /\ Choice(p) # {"Abort Merge"} => merging[r.cwd]
      /\ (q > 0 /\ t[q].st = "ReadyToFinalize") =>
           /\ t[q + 1] = UiEv("error", {"Merge failed", ErrMsg("merge")})
           /\ r.pc = "done"
           /\ merging[r.cwd]

\* ------------------------------------------------- overlapping resyncs
\* a call of a resync that failed although the directory allowed it
FailedSpuriously(e) ==
  /\ e.k = "git" /\ ~e.ok
  /\ ~(e.op = QMerging /\ e.st = "Idle")
  /\ ~(e.op = "commit --no-edit" /\ e.st # "ReadyToFinalize")

\* the successful commits of invocation p
CommitsOf(p) ==
  {i \in EvsFor(proc[p].trace.ev, "commit --no-edit") : proc[p].trace.ev[i].ok}

\* C37: when two resync invocations work on the same directory and each ran
\* its merge-in-progress query while the directory was in ReadyToFinalize,
\* at most one of them commits and at most one new commit exists; once both
\* are over, and at least one of them had no call fail for a reason of the
\* executor's own, no merge is in progress in the directory.
C37_OverlappingResyncsCommitOnce ==
  \A p \in Resyncs : \A q \in Resyncs \ {p} :
    LET r == proc[p]
        s == proc[q]
        m == At(p, QMerging)
        n == At(q, QMerging) IN
    (/\ m > 0 /\ n > 0 /\ r.cwd = s.cwd
     /\ r.trace.ev[m].st = "ReadyToFinalize"
     /\ s.trace.ev[n].st = "ReadyToFinalize") =>
      /\ Cardinality(CommitsOf(p)) + Cardinality(CommitsOf(q)) <= 1
      /\ commits <= r.snap.commits + 1
      /\ (/\ r.pc = "done" /\ s.pc = "done"
          /\ \A i \in 1..Len(r.trace.ev) : ~FailedSpuriously(r.trace.ev[i])) =>
           ~merging[r.cwd]

C37_Witness ==
  \E p \in Resyncs : \E q \in Resyncs \ {p} :
    LET t == proc[p].trace.ev
        u == proc[q].trace.ev
        a == At(p, "add -A")
        b == At(q, "add -A")
        c == At(q, "commit --no-edit") IN
    /\ proc[p].pc = "done" /\ proc[q].pc = "done"
    /\ proc[p].cwd = proc[q].cwd
    /\ a > 0 /\ t[a].ok /\ b > 0 /\ u[b].ok
    /\ CommitsOf(p) # {}
    /\ c > 0 /\ ~u[c].ok /\ u[c].st = "Idle"
    /\ ~merging[proc[p].cwd] /\ commits = 1

\* ------------------------------------------------- removal termination
\* the calls of a removal that act on a branch
RemovalStepOps == {"worktree remove", "branch -D", "push --delete"}
\* the positions in t of the removal calls for branch b
StepsOn(t, b) ==
  {i \in 1..Len(t) : t[i].k = "git" /\ t[i].op \in RemovalStepOps /\ t[i].out = {b}}

\* the loop of a removal: calls for selected branches only, one of each kind
\* per branch at most, branch by branch in selection order, every branch
\* before the loop index attempted and none after it, and the report as the
\* one last message
RemovalLoopInOrder ==
  \A p \in Removes :
    LET r == proc[p]
        t == r.trace.ev
        n == Len(r.selected) IN
    /\ \A i \in 1..Len(t) :
         (t[i].k = "git" /\ t[i].op \in RemovalStepOps) =>
           /\ r.i > 0
           /\ \E k \in 1..n : t[i].out = {r.selected[k].branch}
    /\ \A k \in 1..n :
         LET b == r.selected[k].branch IN
         /\ \A op \in RemovalStepOps : Cardinality(EvsOn(t, op, b)) <= 1
         /\ \A l \in 1..n : k < l =>
              /\ b # r.selected[l].branch
              /\ \A i \in StepsOn(t, b) : \A j \in StepsOn(t, r.selected[l].branch) : i < j
         /\ (r.i > 0 /\ k < r.i) => EvsOn(t, FirstOpOf(r.selected[k]), b) # {}
         /\ k > r.i => StepsOn(t, b) = {}
    /\ CountEv(t, "info:removed") <= 1
    /\ CountEv(t, "info:removed") = 1 => r.pc = "done"
    /\ (r.pc = "done" /\ r.i > 0) =>
         /\ r.i = n + 1
         /\ Last(t).op = "info:removed"
         /\ Last(t).out = SelectedBranches(r)

\* C38: a removal that has started comes to its end when every call and
\* prompt returns; it attempts each selected branch exactly once, in
\* selection order, with at most one remove-worktree, one delete-branch and
\* one delete-remote-branch call per branch, and then shows its final report.
C38_RemovalTerminates ==
  /\ []RemovalLoopInOrder
  /\ \A p \in MainProcs :
       (proc[p].kind = "remove" /\ proc[p].pc # "done") ~> (proc[p].pc = "done")

C38_Witness ==
  \E p \in Removes :
    LET r == proc[p]
        t == r.trace.ev IN
    /\ r.pc = "done" /\ r.deleteRemote
    /\ Len(r.selected) = 2
    /\ r.selected[1].worktreePath # NoDir
    /\ Cardinality(StepsOn(t, r.selected[1].branch)) = 3
    /\ Cardinality(StepsOn(t, r.selected[2].branch)) = 2
    /\ Last(t).op = "info:removed"

\* ------------------------------------------------- fail-open queries
\* C39: in resync a failing merge-in-progress query or conflict-file query
\* is never surfaced as an error: after a failing merge-in-progress query the
\* invocation ends with "No merge in progress" and no further call; after a
\* failing conflict-file query no conflict list and no warning is shown, the
\* next call is stage-all, and after a successful stage-all the commit.
C39_QueryFailuresReadAsNegative ==
  \A p \in Resyncs :
    LET r == proc[p]
        t == r.trace.ev
        m == At(p, QMerging)
        q == At(p, QConflicts) IN
    /\ \A e \in EvsFor(t, "error") :
         ErrMsg(QMerging) \notin t[e].out /\ ErrMsg(QConflicts) \notin t[e].out
    /\ (m > 0 /\ ~t[m].ok) =>
         /\ r.pc = "done"
         /\ Len(t) = m + 1
         /\ t[m + 1] = UiEv("info", {"No merge in progress"})
    /\ (q > 0 /\ ~t[q].ok) =>
         /\ r.pc \in {"r_add", "r_commit", "r_branch", "done"}
         /\ EvsFor(t, QList) = {} /\ EvsFor(t, "warn:unresolved") = {}
         /\ Len(t) > q => (t[q + 1].k = "git" /\ t[q + 1].op = "add -A")
         /\ (Len(t) > q + 1 /\ t[q + 1].ok) =>
              (t[q + 2].k = "git" /\ t[q + 2].op = "commit --no-edit")
         /\ (r.pc = "done" /\ t[q + 1].ok) => Len(t) > q + 1

C39_Witness ==
  \E p \in Resyncs :
    LET r == proc[p]
        t == r.trace.ev
        q == At(p, QConflicts)
        c == At(p, "commit --no-edit") IN
    /\ r.pc = "done"
    /\ q > 0 /\ ~t[q].ok /\ t[q].st = "ReadyToFinalize"
    /\ c = q + 2 /\ t[c].ok
    /\ ~merging[r.cwd]

====
